---- MODULE Spec2Model ----
(***************************************************************************)
(* Query orchestrator of the AnalyticalWorkspace dashboard component.      *)
(* Two variants of the component exist in the repository                   *)
(* (src/unnamed/part_000 and src/unnamed/part_002); the variable           *)
(* `component` says which of them is mounted.                              *)
(***************************************************************************)
EXTENDS Integers, Sequences, FiniteSets, TLC

\* ------------------------------------------------------------------ bounds
MaxRequests == 3        \* main-channel requests dispatched in one run
MaxLiveRequests == 2    \* live-snapshot requests dispatched in one run
MaxDate == 1            \* calendar days 1..MaxDate offered by the date inputs
MaxRespRows == 1        \* rows in one query response

\* --------------------------------------------------------- program values
NullSource == 0         \* selectedSourceId = null
Undefined == -1         \* an omitted payload field
EmptyDate == 0          \* the '' value of a date input

Components == {"part_000", "part_002"}
StationCodes == {"S1"}
NoError == "null"
NoSnapshot == "null"
NoRequest == [via |-> "none", current |-> FALSE]
NoCall == [fn |-> "none"]
NoFilters == [sources |-> <<>>, stations |-> {}, min_observed_at |-> EmptyDate,
              max_observed_at |-> EmptyDate, loaded |-> FALSE]

MsgSelectSource == "Select a source file to visualize data."
MsgNoData == "No data for the selected source and filters."
MsgTruncated == "Showing rows (query truncated)."
MsgFailedDefault == "Failed to load analytics data."
MsgFiltersFailed == "Could not load analytics filters."
TransportErrors == {"Network Error", MsgFailedDefault}

\* what GET filters may answer: no sources at all, or two sources
SourceList == << [id |-> 1, row_count |-> 50], [id |-> 2, row_count |-> 8000] >>
FilterResponses ==
  { [sources |-> <<>>, stations |-> {}, min_observed_at |-> EmptyDate,
     max_observed_at |-> EmptyDate, loaded |-> TRUE],
    [sources |-> SourceList, stations |-> StationCodes, min_observed_at |-> 1,
     max_observed_at |-> MaxDate, loaded |-> TRUE] }

\* rows the server may return
ServerRows ==
  { [observed_at |-> 1, station_code |-> "S1", variable_code |-> "PM25", value |-> 10],
    [observed_at |-> 2, station_code |-> "S1", variable_code |-> "PM25", value |-> 20] }
RECURSIVE SeqsUpTo(_, _)
SeqsUpTo(S, n) ==
  IF n = 0 THEN { <<>> }
  ELSE LET shorter == SeqsUpTo(S, n - 1)
       IN shorter \cup { Append(s, x) : s \in shorter, x \in S }
QueryResponses ==
  { [rows |-> b, truncated |-> t] : b \in SeqsUpTo(ServerRows, MaxRespRows), t \in BOOLEAN }
LiveResponses == {"snapshotA"}
DateInputs == 0..MaxDate
LimitInputs == {9000}

Max(a, b) == IF a >= b THEN a ELSE b
Min(a, b) == IF a <= b THEN a ELSE b

VARIABLES
  component,          \* which variant of AnalyticalWorkspace is mounted
  filters, bootstrapReady,
  selectedSourceId, selectedStations, dateFrom, dateTo, rowLimit,
  rows, error, loading,
  requestIdRef,
  timers,             \* pending setTimeout callbacks of the debounce effect
  latest,             \* of the request with token requestIdRef: its origin, and whether
                      \* its payload is the one the filter values of now would give
  pending,            \* tokens of the runAnalysis calls suspended at their await
  appliedId,          \* token of the response last applied to rows/error, 0 if none
  liveSnapshot, liveLoading, liveRequestIdRef, livePending,
  valueScale,         \* how many units of the `value` column make 1.0
  call                \* the last application of a projection function: its name,
                      \* its arguments besides rows, and what it returned

filterVars == <<selectedSourceId, selectedStations, dateFrom, dateTo, rowLimit>>
mainVars == <<rows, error, loading, requestIdRef, pending, appliedId>>
liveVars == <<liveSnapshot, liveLoading, liveRequestIdRef, livePending>>
projectionVars == <<valueScale, call>>
orchestratorVars ==
  <<component, filters, bootstrapReady, filterVars, mainVars, latest, timers, liveVars>>
vars == <<orchestratorVars, projectionVars>>

\* ----------------------------------------------------------- pure helpers
\* `!d`: the empty text and undefined are the falsy values a date field takes
Falsy(d) == d = EmptyDate \/ d = Undefined

\* `from || undefined`
OrUndefined(d) == IF Falsy(d) THEN Undefined ELSE d

\* normalizeDateRange that passes an inverted pair on as it is
normalizeDateRangeNoSwap(from, to) ==
  IF Falsy(from) \/ Falsy(to)
    THEN [from |-> OrUndefined(from), to |-> OrUndefined(to)]
  ELSE [from |-> from, to |-> to]

normalizeDateRange(from, to) ==
  IF Falsy(from) \/ Falsy(to)
    THEN [from |-> OrUndefined(from), to |-> OrUndefined(to)]
  ELSE IF from <= to THEN [from |-> from, to |-> to]
  ELSE [from |-> to, to |-> from]

\* filters?.sources.find((source) => source.id === sourceId)
FindSource(f, sourceId) ==
  LET hits == { i \in 1..Len(f.sources) : f.sources[i].id = sourceId }
  IN IF hits = {} THEN Undefined
     ELSE f.sources[CHOOSE i \in hits : \A j \in hits : i <= j].row_count

\* Math.max(100, selectedSource?.row_count ?? 5000)
sourceMaxRows(f, sourceId) ==
  LET rc == IF sourceId = NullSource THEN Undefined ELSE FindSource(f, sourceId)
  IN Max(100, IF rc = Undefined THEN 5000 ELSE rc)

\* effectiveLimit that does not look at the row count of the source
effectiveLimitOfRequest(f, sourceId, requestedLimit) == Max(100, requestedLimit)

\* Math.max(100, Math.min(requestedLimit, Math.max(100, row_count ?? requestedLimit)))
effectiveLimit(f, sourceId, requestedLimit) ==
  LET rc == FindSource(f, sourceId)
      datasetMaxRows == Max(100, IF rc = Undefined THEN requestedLimit ELSE rc)
  IN Max(100, Min(requestedLimit, datasetMaxRows))

\* the payload runAnalysis builds from its arguments
BuildPayload(comp, f, args) ==
  LET normalizedRange == normalizeDateRange(args.fromDate, args.toDate)
  IN [source_file_ids |-> <<args.sourceId>>,
      station_codes |-> args.stationCodes,
      date_from |-> normalizedRange.from,
      date_to |-> normalizedRange.to,
      limit |-> IF comp = "part_000"
                  THEN effectiveLimit(f, args.sourceId, args.requestedLimit)
                  ELSE args.requestedLimit]

\* the arguments both the debounce callback and handleRunClick pass
CurrentArgs(src, st, from, to, lim) ==
  [sourceId |-> src, stationCodes |-> st, fromDate |-> from, toDate |-> to,
   requestedLimit |-> lim]

\* ------------------------------------------------------------------- Init
\* the component has mounted and its bootstrap effect awaits GET filters
Init ==
  /\ component \in Components
  /\ filters = NoFilters
  /\ bootstrapReady = FALSE
  /\ selectedSourceId = NullSource
  /\ selectedStations = <<>>
  /\ dateFrom = EmptyDate
  /\ dateTo = EmptyDate
  /\ rowLimit = IF component = "part_000" THEN 5000 ELSE 3000
  /\ rows = <<>>
  /\ error = NoError
  /\ loading = TRUE
  /\ requestIdRef = 0
  /\ timers = <<>>
  /\ latest = NoRequest
  /\ pending = {}
  /\ appliedId = 0
  /\ liveSnapshot = NoSnapshot
  /\ liveLoading = FALSE
  /\ liveRequestIdRef = 0
  /\ livePending = {}
  /\ valueScale = 1
  /\ call = NoCall

\* ------------------------------------------------------ the main channel
\* the record kept of a request: the payload runAnalysis built from `args`
\* against the payload the filter values on screen give
Issued(args, via) ==
  [via |-> via,
   current |-> BuildPayload(component, filters, args)
               = BuildPayload(component, filters,
                              CurrentArgs(selectedSourceId, selectedStations, dateFrom,
                                          dateTo, rowLimit))]

\* a filter value changed after the latest request was built
FilterEdited == latest' = [latest EXCEPT !.current = FALSE]

\* runAnalysis without the no-source precondition
runAnalysisNoPrecondition(args, via) ==
  LET requestId == requestIdRef + 1
  IN /\ requestIdRef' = requestId
     /\ latest' = Issued(args, via)
     /\ pending' = pending \cup {requestId}
     /\ loading' = TRUE
     /\ error' = NoError
     /\ UNCHANGED <<rows, appliedId>>

\* runAnalysis that tags every request after the first with the token in use
runAnalysisReusingToken(args, via) ==
  IF args.sourceId = NullSource
    THEN /\ rows' = <<>>
         /\ error' = MsgSelectSource
         /\ appliedId' = 0
         /\ UNCHANGED <<loading, requestIdRef, latest, pending>>
    ELSE LET requestId == Max(1, requestIdRef)
         IN /\ requestIdRef' = requestId
            /\ latest' = Issued(args, via)
            /\ pending' = pending \cup {requestId}
            /\ loading' = TRUE
            /\ error' = NoError
            /\ UNCHANGED <<rows, appliedId>>

\* runAnalysis up to its await: the precondition, the payload, the token
runAnalysis(args, via) ==
  IF args.sourceId = NullSource
    THEN /\ rows' = <<>>
         /\ error' = MsgSelectSource
         /\ appliedId' = 0
         /\ UNCHANGED <<loading, requestIdRef, latest, pending>>
    ELSE LET requestId == requestIdRef + 1
         IN /\ requestIdRef' = requestId
            /\ latest' = Issued(args, via)
            /\ pending' = pending \cup {requestId}
            /\ loading' = TRUE
            /\ error' = NoError
            /\ UNCHANGED <<rows, appliedId>>

\* what runAnalysis does to the message after setRows(response.rows)
SuccessMessage(comp, response, current) ==
  IF Len(response.rows) = 0 THEN MsgNoData
  ELSE IF comp = "part_002" /\ response.truncated THEN MsgTruncated
  ELSE current

\* QuerySucceeds without the token comparison: every response is applied
QuerySucceedsUnchecked(requestId, response) ==
  /\ requestId \in pending
  /\ pending' = pending \ {requestId}
  /\ rows' = response.rows
  /\ error' = SuccessMessage(component, response, error)
  /\ loading' = FALSE
  /\ appliedId' = requestId
  /\ UNCHANGED <<projectionVars, component, filters, bootstrapReady, filterVars, requestIdRef, latest,
                 timers, liveVars>>

\* QuerySucceeds whose finally block clears loading whatever the token
QuerySucceedsFinallyUnchecked(requestId, response) ==
  /\ requestId \in pending
  /\ pending' = pending \ {requestId}
  /\ IF requestId # requestIdRef
       THEN UNCHANGED <<rows, error, appliedId>>
       ELSE /\ rows' = response.rows
            /\ error' = SuccessMessage(component, response, error)
            /\ appliedId' = requestId
  /\ loading' = FALSE
  /\ UNCHANGED <<projectionVars, component, filters, bootstrapReady, filterVars, requestIdRef, latest,
                 timers, liveVars>>

\* QuerySucceeds that appends the response's rows to the batch on display
QuerySucceedsMerging(requestId, response) ==
  /\ requestId \in pending
  /\ pending' = pending \ {requestId}
  /\ IF requestId # requestIdRef
       THEN UNCHANGED <<rows, error, loading, appliedId>>
       ELSE /\ rows' = rows \o response.rows
            /\ error' = SuccessMessage(component, response, error)
            /\ loading' = FALSE
            /\ appliedId' = requestId
  /\ UNCHANGED <<projectionVars, component, filters, bootstrapReady, filterVars, requestIdRef, latest,
                 timers, liveVars>>

\* runAnalysis resumes after `await runAnalyticsQuery(payload)` returned
QuerySucceeds(requestId, response) ==
  /\ requestId \in pending
  /\ pending' = pending \ {requestId}
  /\ IF requestId # requestIdRef
       THEN UNCHANGED <<rows, error, loading, appliedId>>
       ELSE /\ rows' = response.rows
            /\ error' = SuccessMessage(component, response, error)
            /\ loading' = FALSE
            /\ appliedId' = requestId
  /\ UNCHANGED <<projectionVars, component, filters, bootstrapReady, filterVars, requestIdRef, latest,
                 timers, liveVars>>

\* QueryFails without the token comparison: every failure is shown
QueryFailsUnchecked(requestId, message) ==
  /\ requestId \in pending
  /\ pending' = pending \ {requestId}
  /\ rows' = <<>>
  /\ error' = message
  /\ loading' = FALSE
  /\ appliedId' = requestId
  /\ UNCHANGED <<projectionVars, component, filters, bootstrapReady, filterVars, requestIdRef, latest,
                 timers, liveVars>>

\* QueryFails that leaves the previous batch on display
QueryFailsKeepsRows(requestId, message) ==
  /\ requestId \in pending
  /\ pending' = pending \ {requestId}
  /\ IF requestId # requestIdRef
       THEN UNCHANGED <<rows, error, loading, appliedId>>
       ELSE /\ error' = message
            /\ loading' = FALSE
            /\ appliedId' = requestId
            /\ UNCHANGED rows
  /\ UNCHANGED <<projectionVars, component, filters, bootstrapReady, filterVars, requestIdRef, latest,
                 timers, liveVars>>

\* runAnalysis resumes in its catch block
QueryFails(requestId, message) ==
  /\ requestId \in pending
  /\ pending' = pending \ {requestId}
  /\ IF requestId # requestIdRef
       THEN UNCHANGED <<rows, error, loading, appliedId>>
       ELSE /\ rows' = <<>>
            /\ error' = message
            /\ loading' = FALSE
            /\ appliedId' = requestId
  /\ UNCHANGED <<projectionVars, component, filters, bootstrapReady, filterVars, requestIdRef, latest,
                 timers, liveVars>>

\* an effect cleanup that cancels nothing
clearTimeoutNoop(ts) == ts

\* clearTimeout(timeout) in the cleanup of the debounce effect
clearTimeout(ts) == IF ts = <<>> THEN ts ELSE SubSeq(ts, 1, Len(ts) - 1)

\* the debounce effect re-runs because one of its dependencies changed
DebounceEffect(ready, src, st, from, to, lim) ==
  timers' = IF ready
              THEN Append(clearTimeout(timers), CurrentArgs(src, st, from, to, lim))
              ELSE clearTimeout(timers)

\* the oldest pending timer of the debounce effect expires
TimerFires ==
  /\ timers # <<>>
  /\ Head(timers).sourceId = NullSource \/ requestIdRef < MaxRequests
  /\ timers' = Tail(timers)
  /\ runAnalysis(Head(timers), "timer")
  /\ UNCHANGED <<projectionVars, component, filters, bootstrapReady, filterVars, liveVars>>

\* a Refresh button that arms the debounce timer instead of dispatching
handleRunClickDebounced ==
  /\ ~loading
  /\ DebounceEffect(TRUE, selectedSourceId, selectedStations, dateFrom, dateTo, rowLimit)
  /\ UNCHANGED <<projectionVars, component, filters, bootstrapReady, filterVars, mainVars, latest, liveVars>>

\* the Refresh button, disabled while loading
handleRunClick ==
  /\ ~loading
  /\ selectedSourceId = NullSource \/ requestIdRef < MaxRequests
  /\ runAnalysis(CurrentArgs(selectedSourceId, selectedStations, dateFrom, dateTo, rowLimit),
                 "click")
  /\ UNCHANGED <<projectionVars, component, filters, bootstrapReady, filterVars, timers, liveVars>>

\* ------------------------------------------------------ the live channel
\* refreshLiveSnapshot up to its await
refreshLiveSnapshot ==
  LET requestId == liveRequestIdRef + 1
  IN /\ liveRequestIdRef' = requestId
     /\ livePending' = livePending \cup {requestId}
     /\ liveLoading' = TRUE
     /\ UNCHANGED liveSnapshot

\* the live-snapshot effect re-runs (part_000 only; part_002 has no live channel)
LiveEffect(ready) ==
  IF component = "part_000" /\ ready
    THEN refreshLiveSnapshot
    ELSE UNCHANGED liveVars

\* whether the live-snapshot effect may still dispatch within the bound
LiveBudget == component = "part_000" => liveRequestIdRef < MaxLiveRequests

\* LiveSucceeds comparing its token with the main channel's counter
LiveSucceedsSharedToken(requestId, response) ==
  /\ requestId \in livePending
  /\ livePending' = livePending \ {requestId}
  /\ IF requestId # requestIdRef
       THEN UNCHANGED <<liveSnapshot, liveLoading>>
       ELSE /\ liveSnapshot' = response
            /\ liveLoading' = FALSE
  /\ UNCHANGED <<projectionVars, component, filters, bootstrapReady, filterVars, mainVars, latest, timers,
                 liveRequestIdRef>>

\* refreshLiveSnapshot resumes after `await getStationLiveSnapshot(...)` returned
LiveSucceeds(requestId, response) ==
  /\ requestId \in livePending
  /\ livePending' = livePending \ {requestId}
  /\ IF requestId # liveRequestIdRef
       THEN UNCHANGED <<liveSnapshot, liveLoading>>
       ELSE /\ liveSnapshot' = response
            /\ liveLoading' = FALSE
  /\ UNCHANGED <<projectionVars, component, filters, bootstrapReady, filterVars, mainVars, latest, timers,
                 liveRequestIdRef>>

\* refreshLiveSnapshot resumes in its catch block
LiveFails(requestId) ==
  /\ requestId \in livePending
  /\ livePending' = livePending \ {requestId}
  /\ IF requestId # liveRequestIdRef
       THEN UNCHANGED <<liveSnapshot, liveLoading>>
       ELSE /\ liveSnapshot' = NoSnapshot
            /\ liveLoading' = FALSE
  /\ UNCHANGED <<projectionVars, component, filters, bootstrapReady, filterVars, mainVars, latest, timers,
                 liveRequestIdRef>>

\* ------------------------------------------------------------- bootstrap
\* the clamp effect on rowLimit (part_000): Math.min(Math.max(100, current), sourceMaxRows)
ClampRowLimit(comp, f, sourceId, current) ==
  IF comp = "part_000" THEN Min(Max(100, current), sourceMaxRows(f, sourceId)) ELSE current

\* GET filters answered: the bootstrap effect stores the filters and the defaults
BootstrapSucceeds(nextFilters) ==
  LET firstSource == IF nextFilters.sources = <<>> THEN NullSource
                     ELSE nextFilters.sources[1].id
      firstCount == IF nextFilters.sources = <<>> THEN 5000
                    ELSE nextFilters.sources[1].row_count
      limit0 == IF component = "part_000" THEN Max(100, Min(5000, firstCount)) ELSE rowLimit
      limit1 == ClampRowLimit(component, nextFilters, firstSource, limit0)
  IN /\ ~filters.loaded
     /\ error # MsgFiltersFailed
     /\ filters' = nextFilters
     /\ dateFrom' = nextFilters.min_observed_at
     /\ dateTo' = nextFilters.max_observed_at
     /\ selectedSourceId' = firstSource
     /\ rowLimit' = limit1
     /\ bootstrapReady' = TRUE
     /\ loading' = FALSE
     /\ DebounceEffect(TRUE, firstSource, selectedStations, dateFrom', dateTo', limit1)
     /\ LiveEffect(TRUE)
     /\ UNCHANGED <<projectionVars, component, selectedStations, rows, error, requestIdRef, latest, pending,
                    appliedId>>

\* GET filters failed
BootstrapFails ==
  /\ ~filters.loaded
  /\ error # MsgFiltersFailed
  /\ error' = MsgFiltersFailed
  /\ loading' = FALSE
  /\ UNCHANGED <<projectionVars, component, filters, bootstrapReady, filterVars, rows, requestIdRef, latest,
                 pending, appliedId, timers, liveVars>>

\* --------------------------------------------------------- filter changes
\* a source button of the list is clicked
SelectSource(sourceId) ==
  /\ \E i \in 1..Len(filters.sources) : filters.sources[i].id = sourceId
  /\ sourceId # selectedSourceId
  /\ selectedSourceId' = sourceId
  /\ rowLimit' = ClampRowLimit(component, filters, sourceId, rowLimit)
  /\ DebounceEffect(bootstrapReady, sourceId, selectedStations, dateFrom, dateTo, rowLimit')
  /\ FilterEdited
  /\ UNCHANGED <<projectionVars, component, filters, bootstrapReady, selectedStations, dateFrom, dateTo,
                 mainVars, liveVars>>

\* handleToggleStation: remove the code when present, append it otherwise
ToggleStation(current, stationCode) ==
  IF \E i \in 1..Len(current) : current[i] = stationCode
    THEN SelectSeq(current, LAMBDA item : item # stationCode)
    ELSE Append(current, stationCode)

handleToggleStation(stationCode) ==
  /\ stationCode \in filters.stations
  /\ LiveBudget
  /\ selectedStations' = ToggleStation(selectedStations, stationCode)
  /\ DebounceEffect(bootstrapReady, selectedSourceId, selectedStations', dateFrom, dateTo,
                    rowLimit)
  /\ LiveEffect(bootstrapReady)
  /\ FilterEdited
  /\ UNCHANGED <<projectionVars, component, filters, bootstrapReady, selectedSourceId, dateFrom, dateTo,
                 rowLimit, mainVars>>

\* the date-from input changes
SetDateFrom(value) ==
  /\ value # dateFrom
  /\ dateFrom' = value
  /\ DebounceEffect(bootstrapReady, selectedSourceId, selectedStations, value, dateTo, rowLimit)
  /\ FilterEdited
  /\ UNCHANGED <<projectionVars, component, filters, bootstrapReady, selectedSourceId, selectedStations,
                 dateTo, rowLimit, mainVars, liveVars>>

\* the date-to input changes
SetDateTo(value) ==
  /\ value # dateTo
  /\ dateTo' = value
  /\ DebounceEffect(bootstrapReady, selectedSourceId, selectedStations, dateFrom, value, rowLimit)
  /\ FilterEdited
  /\ UNCHANGED <<projectionVars, component, filters, bootstrapReady, selectedSourceId, selectedStations,
                 dateFrom, rowLimit, mainVars, liveVars>>

\* what the row-limit input stores for a typed number
ClampLimitInput(comp, f, sourceId, typed) ==
  IF comp = "part_000"
    THEN Min(sourceMaxRows(f, sourceId), Max(100, typed))
    ELSE Min(20000, Max(1000, typed))

\* the row-limit input changes
SetRowLimit(typed) ==
  LET next == ClampLimitInput(component, filters, selectedSourceId, typed)
  IN /\ next # rowLimit
     /\ rowLimit' = next
     /\ DebounceEffect(bootstrapReady, selectedSourceId, selectedStations, dateFrom, dateTo, next)
     /\ FilterEdited
     /\ UNCHANGED <<projectionVars, component, filters, bootstrapReady, selectedSourceId, selectedStations,
                    dateFrom, dateTo, mainVars, liveVars>>

\* ------------------------------------------------------------------- Next
Next ==
  \/ \E f \in FilterResponses : BootstrapSucceeds(f)
  \/ BootstrapFails
  \/ \E s \in 1..Len(SourceList) : SelectSource(s)
  \/ \E c \in StationCodes : handleToggleStation(c)
  \/ \E d \in DateInputs : SetDateFrom(d)
  \/ \E d \in DateInputs : SetDateTo(d)
  \/ \E n \in LimitInputs : SetRowLimit(n)
  \/ TimerFires
  \/ handleRunClick
  \/ \E t \in 1..MaxRequests, r \in QueryResponses : QuerySucceeds(t, r)
  \/ \E t \in 1..MaxRequests, m \in TransportErrors : QueryFails(t, m)
  \/ \E t \in 1..MaxLiveRequests, r \in LiveResponses : LiveSucceeds(t, r)
  \/ \E t \in 1..MaxLiveRequests : LiveFails(t)

Spec == Init /\ [][Next]_vars

\* the call of runAnalysis with token t resumes: its request was answered or failed
Completes(t) ==
  \/ \E r \in QueryResponses : QuerySucceeds(t, r)
  \/ \E m \in TransportErrors : QueryFails(t, m)

\* The timer of setTimeout expires once its 130 ms have passed, GET filters
\* is answered or fails, and so is every query that was sent.
FairSpec ==
  /\ Spec
  /\ WF_vars(TimerFires)
  /\ WF_vars(BootstrapFails \/ \E f \in FilterResponses : BootstrapSucceeds(f))
  /\ \A t \in 1..MaxRequests : WF_vars(Completes(t))

TypeOK ==
  /\ component \in Components
  /\ requestIdRef \in 0..MaxRequests
  /\ pending \subseteq 1..requestIdRef
  /\ (latest = NoRequest) = (requestIdRef = 0)
  /\ appliedId \in 0..requestIdRef
  /\ liveRequestIdRef \in 0..MaxLiveRequests
  /\ livePending \subseteq 1..liveRequestIdRef
  /\ loading \in BOOLEAN
  /\ liveLoading \in BOOLEAN

\* ----------------------------------------------------------------- claims
Tokens == 1..MaxRequests
LiveTokens == 1..MaxLiveRequests
visible == <<rows, error, loading>>
\* the runAnalysis call with token t resumes in this step
Arrives(t) == t \in pending /\ t \notin pending'
LiveArrives(t) == t \in livePending /\ t \notin livePending'

\* C1: a main-channel response, success or failure, changes rows, message and
\* loading if and only if its token is the highest token issued when it arrives.
C1_AppliedIffLatest ==
  [][\A t \in Tokens :
       Arrives(t) => ((visible' # visible) <=> (t = requestIdRef))]_vars

\* C1 witness: tokens 1, 2, 3 were issued, 1 and 3 have arrived, 2 is still in
\* flight, and the response on display is that of token 3.
C1_Witness ==
  requestIdRef = 3 /\ pending = {2} /\ appliedId = 3 /\ ~loading

\* C2 as stated: once a later request has been dispatched, the batch on display
\* is never the one of an earlier request.
C2_DisplayedAlwaysLatest ==
  appliedId # 0 => appliedId = requestIdRef

\* C2 amended: the outcome of an earlier request stays on display only while
\* the latest request is loading; with loading false the display is the
\* outcome of the latest dispatched request, and with no timer pending either
\* that request carries the current filter state.
C2_DisplayedLatestWhenIdle ==
  (requestIdRef > 0 /\ ~loading) =>
     /\ appliedId = requestIdRef
     /\ timers = <<>> => latest.current

\* C2 witness: a second filter state was requested and its batch is on display.
C2_Witness ==
  /\ requestIdRef >= 2 /\ ~loading /\ timers = <<>>
  /\ appliedId = requestIdRef /\ rows # <<>>
  /\ selectedSourceId = 2

\* C3: a stale response, success or failure, changes nothing but the set of
\* suspended calls: rows, message, loading and everything else stay as they are.
C3_StaleChangesNothing ==
  [][\A t \in Tokens :
       (Arrives(t) /\ t # requestIdRef) =>
          UNCHANGED <<rows, error, loading, appliedId, requestIdRef, latest, timers,
                      filterVars, liveVars>>]_vars

\* C3 witness: request 1 has completed while a later one was already issued,
\* and no response was ever applied.
C3_Witness ==
  requestIdRef >= 2 /\ 1 \notin pending /\ appliedId = 0 /\ loading /\ error = NoError

\* C4: a failure of the request with the latest token clears the batch, stores
\* the error text as the message, and dispatches nothing and arms no timer.
C4_LatestFailureClears ==
  [][\A t \in Tokens, m \in TransportErrors :
       (t = requestIdRef /\ Arrives(t) /\ QueryFails(t, m)) =>
          /\ rows' = <<>>
          /\ error' = m
          /\ ~loading'
          /\ requestIdRef' = requestIdRef
          /\ pending' = pending \ {t}
          /\ timers' = timers]_vars

\* C4 witness: the second or a later request failed with the latest token, and
\* the display is the cleared batch with the error text.
C4_Witness ==
  /\ requestIdRef >= 2 /\ appliedId = requestIdRef /\ ~loading
  /\ rows = <<>> /\ error \in TransportErrors

\* C5: a filter change dispatches nothing and leaves exactly one timer, which
\* holds the new filter values; at most one timer is ever pending; the query
\* an expiring timer dispatches carries the values of the last change.
C5_DebounceCollapses ==
  /\ [](Len(timers) <= 1)
  /\ [][(filterVars' # filterVars) =>
          /\ requestIdRef' = requestIdRef
          /\ pending' = pending
          /\ timers' = IF bootstrapReady'
                         THEN << CurrentArgs(selectedSourceId', selectedStations', dateFrom',
                                             dateTo', rowLimit') >>
                         ELSE <<>>]_vars
  /\ [][(timers # <<>> /\ timers' = <<>> /\ requestIdRef' # requestIdRef) =>
          /\ requestIdRef' = requestIdRef + 1
          /\ latest'.current
          /\ latest'.via = "timer"]_vars

\* C5 witness: two changes (source, station) preceded the only query so far,
\* and that query carries both.
C5_Witness ==
  /\ requestIdRef = 1 /\ latest.via = "timer" /\ latest.current
  /\ selectedSourceId = 2 /\ selectedStations = <<"S1">>

\* C6: the two channels have separate token counters. After the bootstrap, a
\* step that issues or completes a live-snapshot request leaves the main
\* channel's token, rows, message, loading flag and suspended calls alone, and
\* a step that issues or completes a main query leaves the live channel alone;
\* each channel applies a response exactly when its token is the latest of its
\* own counter.
C6_IndependentChannels ==
  /\ [][(bootstrapReady /\ (liveRequestIdRef' # liveRequestIdRef \/ livePending' # livePending))
          => UNCHANGED <<requestIdRef, rows, error, loading, pending, appliedId>>]_vars
  /\ [][(requestIdRef' # requestIdRef \/ pending' # pending) => UNCHANGED liveVars]_vars
  /\ [][\A t \in LiveTokens :
          LiveArrives(t) =>
            IF t = liveRequestIdRef THEN ~liveLoading'
            ELSE UNCHANGED <<liveSnapshot, liveLoading>>]_vars
  /\ [][\A t \in Tokens :
          Arrives(t) =>
            IF t = requestIdRef THEN ~loading' /\ appliedId' = t
            ELSE UNCHANGED <<rows, error, loading>>]_vars

\* C6 witness: the two counters differ and each channel has applied the
\* response carrying its own latest token.
C6_Witness ==
  /\ component = "part_000"
  /\ liveRequestIdRef = 1 /\ requestIdRef = 2
  /\ appliedId = 2 /\ ~loading /\ pending = {1}
  /\ liveSnapshot # NoSnapshot /\ ~liveLoading

\* C7 as stated: a manual refresh passes through the debounce timer, so the
\* click itself allocates no token.
C7_ClickGoesThroughTimer ==
  [][handleRunClick => requestIdRef' = requestIdRef]_vars

\* C7 amended: with a source selected, a manual refresh dispatches at once,
\* without arming or cancelling a timer; its request carries the previous token
\* plus one and is suspended like any other, so the discard rule applies to it.
C7_ClickDispatchesAtOnce ==
  [][(selectedSourceId # NullSource /\ ~loading /\ handleRunClick) =>
       /\ requestIdRef' = requestIdRef + 1
       /\ pending' = pending \cup {requestIdRef + 1}
       /\ latest'.via = "click"
       /\ latest'.current
       /\ loading'
       /\ timers' = timers]_vars

\* C7 witness: the latest request came from a click, dispatched while a timer
\* stayed pending, and its response is on display.
C7_Witness ==
  latest.via = "click" /\ appliedId = requestIdRef /\ ~loading /\ timers # <<>>

\* C8: a success of the request with the latest token replaces the batch by
\* exactly the rows of the response, and sets the no-data message if and only
\* if the response has no rows.
C8_SuccessReplaces ==
  [][\A t \in Tokens :
       (t = requestIdRef /\ Arrives(t)) =>
         \A r \in QueryResponses :
           QuerySucceeds(t, r) =>
             /\ rows' = r.rows
             /\ (error' = MsgNoData) <=> (Len(r.rows) = 0)
             /\ ~loading']_vars

\* C8 witness: a second accepted response with rows is on display, with no
\* no-data message.
C8_Witness ==
  /\ requestIdRef >= 2 /\ appliedId = requestIdRef /\ ~loading
  /\ Len(rows) >= 1 /\ error # MsgNoData

\* C9: running the analysis with no source selected allocates no token and
\* suspends no call; it clears the batch and shows the select-a-source message.
C9_NoSourcePrecondition ==
  [][((timers # <<>> /\ Head(timers).sourceId = NullSource /\ TimerFires)
      \/ (selectedSourceId = NullSource /\ handleRunClick)) =>
        /\ requestIdRef' = requestIdRef
        /\ pending' = pending
        /\ latest' = latest
        /\ loading' = loading
        /\ rows' = <<>>
        /\ error' = MsgSelectSource]_vars

\* C9 witness: the filters were loaded without any source, the analysis ran,
\* and the message is shown with no request issued.
C9_Witness ==
  /\ bootstrapReady /\ selectedSourceId = NullSource /\ timers = <<>>
  /\ error = MsgSelectSource /\ rows = <<>> /\ requestIdRef = 0 /\ pending = {}

\* C10: an accepted response with truncated = true and at least one row shows
\* the truncation warning and keeps the returned rows on display.
C10_TruncatedWarns ==
  [][\A t \in Tokens :
       (t = requestIdRef /\ Arrives(t)) =>
         \A r \in QueryResponses :
           (r.truncated /\ Len(r.rows) >= 1 /\ QuerySucceeds(t, r)) =>
             /\ rows' = r.rows
             /\ error' = MsgTruncated]_vars


\* ==================================================================
\* The projection functions of the component: pure functions of `rows`
\* (part_000 lines 167-387, part_002 lines 139-320).
\* ==================================================================

\* ------------------------------------------------------------------ bounds
MaxBatchLen == 3        \* rows in a batch built from SampleRows or FineRows
MaxBins == 2            \* bin counts 1..MaxBins are passed besides the default
MaxExtraDays == 1       \* a day-run batch has up to HeatmapDays + MaxExtraDays days
MaxPayloadDate == 2     \* date values 1..MaxPayloadDate given to normalizeDateRange
MantissaBits == 9       \* significant bits of a number, where a double has 53

\* ------------------------------------------------------------- arithmetic
Abs(x) == IF x < 0 THEN -x ELSE x
RECURSIVE GCD(_, _)
GCD(a, b) == IF b = 0 THEN a ELSE GCD(b, a % b)
RECURSIVE Pow2(_)
Pow2(k) == IF k = 0 THEN 1 ELSE 2 * Pow2(k - 1)

\* A fraction in lowest terms, in units of the value column; Quotient(n, d)
\* is n / d for d > 0.
Quotient(n, d) == LET g == GCD(Abs(n), d) IN [num |-> n \div g, den |-> d \div g]
Whole(n) == [num |-> n, den |-> 1]
RECURSIVE Less(_, _)
\* a < b, by whole parts and then by the remainders, so that no product is formed
Less(a, b) ==
  LET wholeA == a.num \div a.den
      wholeB == b.num \div b.den
      restA == a.num % a.den
      restB == b.num % b.den
  IN IF wholeA # wholeB THEN wholeA < wholeB
     ELSE IF restB = 0 THEN FALSE
     ELSE IF restA = 0 THEN TRUE
     ELSE Less([num |-> b.den, den |-> restB], [num |-> a.den, den |-> restA])
Negated(a) == [num |-> -a.num, den |-> a.den]
Magnitude(a) == [num |-> Abs(a.num), den |-> a.den]

\* A number of the program is a binary floating-point value: a fraction
\* m * 2^e whose m has at most MantissaBits bits.  The exponent has no
\* bounds here: no batch of these sizes reaches those of a double.
\* the least whole number that no m reaches
MantissaEnd == Pow2(MantissaBits)
RECURSIVE Nearest(_, _, _, _)
\* the value nearest to (n / d) * (down / up), n > 0, ties to the even m;
\* up and down are the powers of two n / d has been multiplied and divided by
Nearest(n, d, up, down) ==
  LET m == n \div d
      rest == n % d
      roundedUp == 2 * rest > d \/ (2 * rest = d /\ m % 2 = 1)
  IN IF m >= MantissaEnd
       THEN IF n % 2 = 0 THEN Nearest(n \div 2, d, up, 2 * down)
            ELSE Nearest(n, 2 * d, up, 2 * down)
     ELSE IF 2 * m < MantissaEnd
       THEN IF d % 2 = 0 THEN Nearest(n, d \div 2, 2 * up, down)
            ELSE Nearest(2 * n, d, 2 * up, down)
     ELSE Quotient((IF roundedUp THEN m + 1 ELSE m) * down, up)
\* the number a fraction is rounded to
Fl(q) ==
  IF q.num = 0 THEN q
  ELSE IF q.num < 0 THEN Negated(Nearest(-q.num, q.den, 1, 1))
  ELSE Nearest(q.num, q.den, 1, 1)

\* the sum of two fractions
Sum(a, b) ==
  LET g == GCD(a.den, b.den)
  IN Quotient(a.num * (b.den \div g) + b.num * (a.den \div g), (a.den \div g) * b.den)

\* a + b, a - b, a * b and a / b (b > 0) of numbers
Plus(a, b) == Fl(Sum(a, b))
Minus(a, b) == Plus(a, Negated(b))
Times(a, b) == Fl(Quotient(a.num * b.num, a.den * b.den))
Divided(a, b) ==
  LET g == GCD(a.den, b.den)
  IN Fl(Quotient(a.num * (b.den \div g), (a.den \div g) * b.num))
\* Math.floor(a)
MathFloor(a) == a.num \div a.den

\* { sum, count } of the grouping maps
ZeroAggregate == [sum |-> Whole(0), count |-> 0]
Accumulate(aggregate, value) ==
  [sum |-> Plus(aggregate.sum, value), count |-> aggregate.count + 1]
\* aggregate.sum / aggregate.count
Average(aggregate) == Divided(aggregate.sum, Whole(aggregate.count))

RECURSIVE SumOf(_, _)
\* values.reduce((acc, value) => acc + value, 0) over the first n values
SumOf(values, n) == IF n = 0 THEN Whole(0) ELSE Plus(SumOf(values, n - 1), values[n])
\* Math.min(...values), Math.max(...values) of a non-empty list
MathMin(values) ==
  CHOOSE v \in { values[i] : i \in DOMAIN values } :
    \A i \in DOMAIN values : ~Less(values[i], v)
MathMax(values) ==
  CHOOSE v \in { values[i] : i \in DOMAIN values } :
    \A i \in DOMAIN values : ~Less(v, values[i])

\* ------------------------------------------------------------------ texts
\* A text is the sequence of its characters, each character the place it has
\* in the collation order of localeCompare: blank, hyphen, colon, full stop,
\* then the digits.
Chr == [blank |-> 0, hyphen |-> 1, colon |-> 2, dot |-> 3]
Digit(d) == 4 + d

RECURSIVE DigitsOf(_)
\* `${n}` of a whole n >= 0
DigitsOf(n) == IF n < 10 THEN <<Digit(n)>> ELSE Append(DigitsOf(n \div 10), Digit(n % 10))
\* `${n}`.padStart(2, '0')
padStart2(n) == IF n < 10 THEN <<Digit(0), Digit(n)>> ELSE DigitsOf(n)

RECURSIVE Pow10(_)
Pow10(k) == IF k = 0 THEN 1 ELSE 10 * Pow10(k - 1)
RECURSIVE PaddedDigits(_, _)
\* the last k digits of a whole n >= 0, zeros in front
PaddedDigits(n, k) ==
  IF k = 0 THEN <<>> ELSE Append(PaddedDigits(n \div 10, k - 1), Digit(n % 10))

RECURSIVE ShortestDecimal(_, _)
\* the decimal nearest to a number x >= 0 with the fewest places after the
\* full stop that reads back as x: << its digits as a whole number, places >>
ShortestDecimal(x, places) ==
  LET shifted == Pow10(places)
      nearest == (2 * x.num * shifted + x.den) \div (2 * x.den)
  IN IF places = 6 \/ Fl(Quotient(nearest, shifted)) = x THEN <<nearest, places>>
     ELSE ShortestDecimal(x, places + 1)

\* String(x) of a number x of value units when valueScale = 1
NumberText(x) ==
  LET decimal == ShortestDecimal(Magnitude(x), 0)
      shifted == Pow10(decimal[2])
  IN (IF x.num < 0 THEN <<Chr.hyphen>> ELSE <<>>)
     \o DigitsOf(decimal[1] \div shifted)
     \o (IF decimal[2] = 0 THEN <<>>
         ELSE <<Chr.dot>> \o PaddedDigits(decimal[1] % shifted, decimal[2]))

\* a field of a point holds a text, [text |-> t], or a number
Text(t) == [text |-> t]
IsText(v) == "text" \in DOMAIN v
\* String(v)
StringOf(v) == IF IsText(v) THEN v.text ELSE NumberText(v)

RECURSIVE localeCompare(_, _)
\* a.localeCompare(b): -1, 0 or 1
localeCompare(a, b) ==
  IF a = <<>> /\ b = <<>> THEN 0
  ELSE IF a = <<>> THEN -1
  ELSE IF b = <<>> THEN 1
  ELSE IF Head(a) < Head(b) THEN -1
  ELSE IF Head(a) > Head(b) THEN 1
  ELSE localeCompare(Tail(a), Tail(b))

\* Array.prototype.sort with a comparator: the stable order in which s[i]
\* comes before s[j] when Before(s[i], s[j]), and ties keep their places
StableSort(s, Before(_, _)) ==
  LET n == Len(s)
      ahead(i) == { j \in 1..n : Before(s[j], s[i]) \/ (~Before(s[i], s[j]) /\ j < i) }
  IN [p \in 1..n |-> s[CHOOSE i \in 1..n : Cardinality(ahead(i)) = p - 1]]

\* ------------------------------------------------------------------- time
\* observed_at is an ISO-8601 text: a calendar day (numbered from
\* 2023-12-31 = day 0), a wall-clock hour and minute, and the UTC offset in
\* minutes the text ends with
Timestamp(day, hour, minute, offset) ==
  [day |-> day, hour |-> hour, minute |-> minute, offset |-> offset]

\* the calendar: day number -> <<year, month, day of month>>,
\* for 2023-12-31 .. 2024-02-29
CivilDate(n) ==
  IF n = 0 THEN <<2023, 12, 31>>
  ELSE IF n <= 31 THEN <<2024, 1, n>>
  ELSE <<2024, 2, n - 31>>

\* new Date(observedAt): minutes since 2023-12-31T00:00Z
NewDate(observedAt) ==
  observedAt.day * 1440 + observedAt.hour * 60 + observedAt.minute - observedAt.offset
getUTCDate(dt) == CivilDate(dt \div 1440)
getUTCHours(dt) == (dt % 1440) \div 60
getUTCMinutes(dt) == dt % 60
\* getHours() in a browser whose zone is tz minutes ahead of UTC
getHours(dt, tz) == ((dt + tz) % 1440) \div 60
getMinutes(dt, tz) == (dt + tz) % 60

\* `${year}-${month}-${day}` with month and day padded
DateText(ymd) ==
  DigitsOf(ymd[1]) \o <<Chr.hyphen>> \o padStart2(ymd[2]) \o <<Chr.hyphen>> \o padStart2(ymd[3])
\* observedAt.slice(0, 10): the calendar day written in the text
slice10(observedAt) == DateText(CivilDate(observedAt.day))

Granularities == {"hour", "day", "month", "year"}
getBucketKey(observedAt, granularity) ==
  LET dt == NewDate(observedAt)
      ymd == getUTCDate(dt)
      year == DigitsOf(ymd[1])
      month == padStart2(ymd[2])
      day == padStart2(ymd[3])
      hour == padStart2(getUTCHours(dt))
  IN IF granularity = "year" THEN year
     ELSE IF granularity = "month" THEN year \o <<Chr.hyphen>> \o month
     ELSE IF granularity = "hour"
       THEN year \o <<Chr.hyphen>> \o month \o <<Chr.hyphen>> \o day
            \o <<Chr.blank>> \o hour \o <<Chr.colon, Digit(0), Digit(0)>>
     ELSE year \o <<Chr.hyphen>> \o month \o <<Chr.hyphen>> \o day

\* ------------------------------------------------------------------- maps
\* a Map is the sequence of its entries in insertion order
MapKeys(m) == { m[i].key : i \in DOMAIN m }
MapGet(m, k) == m[CHOOSE i \in DOMAIN m : m[i].key = k].value
\* m.get(k) ?? fallback
MapGetOr(m, k, fallback) == IF k \in MapKeys(m) THEN MapGet(m, k) ELSE fallback
\* m.set(k, v): a present key keeps its place
MapSet(m, k, v) ==
  IF k \in MapKeys(m)
    THEN [i \in DOMAIN m |-> IF m[i].key = k THEN [key |-> k, value |-> v] ELSE m[i]]
    ELSE Append(m, [key |-> k, value |-> v])


\* ------------------------------------------------------------ the batches
FineScale == 1073741824   \* value units per 1.0 in a fine batch: one unit is 2^-30
HeatmapDays == 14         \* slice(-14) of computeHeatmap
StationBarsCap == 14      \* slice(0, 14) of computeStationBars in part_002
DefaultBins == [part_000 |-> 16, part_002 |-> 14]

\* the number the decimal n / d of a response or of the program text is read as
Number(n, d) == Fl(Quotient(n, d))

Row(observedAt, station, variable, value) ==
  [observed_at |-> observedAt, station_code |-> station, variable_code |-> variable,
   value |-> value]

\* rows of two stations over 2023-12-31 .. 2024-02-01; the variable codes
\* include the field names a point has of its own
SampleRows ==
  << Row(Timestamp(1, 8, 0, 0), "S1", "PM25", Number(10, 1)),
     Row(Timestamp(1, 8, 30, 0), "S2", "PM25", Number(20, 1)),
     Row(Timestamp(1, 9, 15, 0), "S1", "O3", Number(1, 10)),
     Row(Timestamp(0, 23, 30, 0), "S2", "overall", Number(30, 1)),
     Row(Timestamp(0, 23, 30, 0), "S1", "PM25", Number(-20, 1)),
     Row(Timestamp(32, 0, 0, 0), "S1", "bucket", Number(10, 1)),
     Row(Timestamp(1, 20, 0, -300), "S2", "date", Number(20, 1)) >>

\* rows whose values are 0, 2^-30 and 2^-28: 9.3e-10 and 3.7e-9
FineRows ==
  << Row(Timestamp(1, 8, 0, 0), "S1", "PM25", Number(0, 1)),
     Row(Timestamp(1, 8, 30, 0), "S1", "PM25", Number(1, 1)),
     Row(Timestamp(1, 9, 15, 0), "S2", "PM25", Number(4, 1)) >>

StationNames ==
  << "S01", "S02", "S03", "S04", "S05", "S06", "S07", "S08", "S09", "S10",
     "S11", "S12", "S13", "S14", "S15", "S16", "S17", "S18" >>

\* the variable code of the row of each day: five codes, PM25 on most days
VariableNames ==
  << "PM25", "O3", "PM25", "NO2", "O3", "PM25", "SO2", "NO2", "CO", "PM25",
     "O3", "SO2", "CO", "PM25", "NO2", "PM25", "O3", "PM25" >>

\* one row a day and a station for the first n days of January 2024, noon UTC,
\* in calendar order or against it
DayRun(n, descending) ==
  [i \in 1..n |->
     LET d == IF descending THEN n + 1 - i ELSE i
     IN Row(Timestamp(d, 12, 0, 0), StationNames[d], VariableNames[d],
            Number(10 * ((3 * d) % 4), 1))]
DayRuns ==
  { DayRun(n, descending) :
      n \in (HeatmapDays - 1)..(HeatmapDays + MaxExtraDays), descending \in BOOLEAN }

\* the batches of up to MaxBatchLen rows of a sample, with repetitions, that
\* take the rows in the order of the sample or against it
BatchesOf(sample) ==
  LET InOrder(places) ==
        \/ \A i \in 1..(Len(places) - 1) : places[i] <= places[i + 1]
        \/ \A i \in 1..(Len(places) - 1) : places[i] >= places[i + 1]
  IN { [i \in DOMAIN places |-> sample[places[i]]] :
         places \in { p \in SeqsUpTo(DOMAIN sample, MaxBatchLen) : InOrder(p) } }
Batches == BatchesOf(SampleRows) \cup DayRuns
FineBatches == BatchesOf(FineRows)

\* -------------------------------------------------- the temporal aggregator
\* the name of the field of a point that holds its bucket key
KeyField(comp) == IF comp = "part_000" THEN "bucket" ELSE "date"

RECURSIVE GroupByBucket(_, _, _, _)
\* the Map of Maps after the loop has taken the first n rows; row i falls in
\* bucket bucketOf[i] under series key keyOf[i]
GroupByBucket(rows_, bucketOf, keyOf, n) ==
  IF n = 0 THEN <<>>
  ELSE LET bucketMap == GroupByBucket(rows_, bucketOf, keyOf, n - 1)
           seriesBuckets == MapGetOr(bucketMap, bucketOf[n], <<>>)
           item == MapGetOr(seriesBuckets, keyOf[n], ZeroAggregate)
           withItem == MapSet(seriesBuckets, keyOf[n], Accumulate(item, rows_[n].value))
           overall == MapGetOr(withItem, "overall", ZeroAggregate)
           withOverall == MapSet(withItem, "overall", Accumulate(overall, rows_[n].value))
       IN MapSet(bucketMap, bucketOf[n], withOverall)

\* { [keyField]: bucket, overall: 0 } and then point[key] = sum / count for
\* every entry of the bucket's Map
PointOf(keyField, entry) ==
  [f \in {keyField, "overall"} \cup MapKeys(entry.value) |->
     IF f \in MapKeys(entry.value) THEN Average(MapGet(entry.value, f))
     ELSE IF f = keyField THEN Text(entry.key)
     ELSE Whole(0)]

\* .map(...).sort((a, b) => String(a[keyField]).localeCompare(String(b[keyField])))
PointsOf(bucketMap, keyField) ==
  StableSort([i \in DOMAIN bucketMap |-> PointOf(keyField, bucketMap[i])],
             LAMBDA a, b : localeCompare(StringOf(a[keyField]), StringOf(b[keyField])) < 0)

RECURSIVE CountKeys(_, _)
\* the Map key -> number of rows after the first n rows
CountKeys(keyOf, n) ==
  IF n = 0 THEN <<>>
  ELSE LET counter == CountKeys(keyOf, n - 1)
       IN MapSet(counter, keyOf[n], MapGetOr(counter, keyOf[n], 0) + 1)

\* the keys of the counter as the loop met them, without the sort
KeysAsMet(counter) == [i \in DOMAIN counter |-> counter[i].key]

\* Array.from(counter.entries()).sort((a, b) => b[1] - a[1]).map(([key]) => key)
KeysByCount(counter) ==
  LET sorted == StableSort(counter, LAMBDA a, b : b.value - a.value < 0)
  IN [i \in DOMAIN sorted |-> sorted[i].key]
\* list.slice(0, k)
SliceTo(list, k) == SubSeq(list, 1, Min(k, Len(list)))

computeTemporalSeries(rows_, granularity, splitByStation) ==
  LET bucketOf == [i \in DOMAIN rows_ |-> getBucketKey(rows_[i].observed_at, granularity)]
      keyOf == [i \in DOMAIN rows_ |->
                  IF splitByStation THEN rows_[i].station_code ELSE rows_[i].variable_code]
      keys == KeysByCount(CountKeys(keyOf, Len(rows_)))
  IN [points |-> PointsOf(GroupByBucket(rows_, bucketOf, keyOf, Len(rows_)), "bucket"),
      keys |-> IF splitByStation THEN keys ELSE SliceTo(keys, 4)]

computeDailySeries(rows_) ==
  LET bucketOf == [i \in DOMAIN rows_ |-> slice10(rows_[i].observed_at)]
      keyOf == [i \in DOMAIN rows_ |-> rows_[i].variable_code]
  IN PointsOf(GroupByBucket(rows_, bucketOf, keyOf, Len(rows_)), "date")

\* topVariableCodes(rows, max)
topVariableCodes(rows_, max) ==
  LET keyOf == [i \in DOMAIN rows_ |-> rows_[i].variable_code]
  IN SliceTo(KeysByCount(CountKeys(keyOf, Len(rows_))), max)

\* topVariables.length > 0 ? topVariables : ['overall']
lineSeriesKeys(topVariables) ==
  IF Len(topVariables) > 0 THEN topVariables ELSE <<"overall">>

\* the temporal series each variant of the component draws: its points, the
\* series keys computed from the batch, and the keys a line is drawn for
\* (temporalSeries.keys.map in part_000, lineSeriesKeys.map in part_002)
TemporalSeries(comp, rows_, granularity, splitByStation) ==
  IF comp = "part_000"
    THEN LET series == computeTemporalSeries(rows_, granularity, splitByStation)
         IN [points |-> series.points, keys |-> series.keys, lines |-> series.keys]
  ELSE LET topVariables == topVariableCodes(rows_, 3)
       IN [points |-> computeDailySeries(rows_), keys |-> topVariables,
           lines |-> lineSeriesKeys(topVariables)]


\* ----------------------------------------------- the categorical aggregator
RECURSIVE GroupByStation(_, _)
\* the Map station -> { sum, count } after the first n rows
GroupByStation(rows_, n) ==
  IF n = 0 THEN <<>>
  ELSE LET grouped == GroupByStation(rows_, n - 1)
           bucket == MapGetOr(grouped, rows_[n].station_code, ZeroAggregate)
       IN MapSet(grouped, rows_[n].station_code, Accumulate(bucket, rows_[n].value))

\* the bars before the sort
StationAverages(rows_) ==
  LET grouped == GroupByStation(rows_, Len(rows_))
  IN [i \in DOMAIN grouped |->
        [station |-> grouped[i].key, avg |-> Average(grouped[i].value)]]

\* computeStationBars without its sort
computeStationBarsUnsorted(comp, rows_) ==
  IF comp = "part_000" THEN StationAverages(rows_)
  ELSE SliceTo(StationAverages(rows_), StationBarsCap)

\* .sort((a, b) => b.avg - a.avg), and .slice(0, 14) in part_002
computeStationBars(comp, rows_) ==
  LET sorted == StableSort(StationAverages(rows_), LAMBDA a, b : Less(b.avg, a.avg))
  IN IF comp = "part_000" THEN sorted ELSE SliceTo(sorted, StationBarsCap)

\* --------------------------------------------------------------- histogram
\* Math.abs(d) < 1e-9 for a number d of value units; the rounding of the
\* literal is finer than anything a difference of two values of a batch shows
WithinTolerance(d) == Less(Magnitude(d), Quotient(valueScale, 1000000000))

\* Math.round(y) of a number y that counts in units of 1 / unit, in whole ones
MathRound(y, unit) ==
  IF unit % 2 = 0
    THEN (MathFloor(y) + unit \div 2) \div unit
    ELSE (2 * y.num + y.den * unit) \div (2 * y.den * unit)

\* round(x, 2) of such a number x: Math.round(x * 100) / 100, in ones
roundOf(x, unit) ==
  Fl(Quotient(MathRound(Times(x, Whole(100)), unit), 100))

\* round(x, 2) of a number x of value units
round(x) == roundOf(x, valueScale)

\* `${round(start)}-${round(end)}`, or with blanks around the hyphen
RangeText(start, end, spaced) ==
  NumberText(round(start))
  \o (IF spaced THEN <<Chr.blank, Chr.hyphen, Chr.blank>> ELSE <<Chr.hyphen>>)
  \o NumberText(round(end))

\* computeHistogram that leaves the values of the last bin uncounted
computeHistogramOpenEnded(comp, rows_, bins) ==
  IF Len(rows_) = 0 THEN <<>>
  ELSE
    LET values == [i \in DOMAIN rows_ |-> rows_[i].value]
        min == MathMin(values)
        max == MathMax(values)
        width == Divided(Minus(max, min), Whole(bins))
        indexes == [i \in DOMAIN values |-> MathFloor(Divided(Minus(values[i], min), width))]
        starts == [b \in 1..bins |-> Plus(min, Times(width, Whole(b - 1)))]
    IN IF WithinTolerance(Minus(max, min))
         THEN << [range |-> RangeText(min, max, comp = "part_002"), count |-> Len(rows_)] >>
         ELSE [b \in 1..bins |->
                 [range |-> RangeText(starts[b], Plus(starts[b], width), FALSE),
                  count |-> Cardinality({ i \in DOMAIN values : indexes[i] = b - 1 })]]

\* computeHistogram that divides whenever the values are not all equal
computeHistogramExact(comp, rows_, bins) ==
  IF Len(rows_) = 0 THEN <<>>
  ELSE
    LET values == [i \in DOMAIN rows_ |-> rows_[i].value]
        min == MathMin(values)
        max == MathMax(values)
        width == Divided(Minus(max, min), Whole(bins))
        indexes == [i \in DOMAIN values |->
                      Min(bins - 1, MathFloor(Divided(Minus(values[i], min), width)))]
        starts == [b \in 1..bins |-> Plus(min, Times(width, Whole(b - 1)))]
    IN IF max = min
         THEN << [range |-> RangeText(min, max, comp = "part_002"), count |-> Len(rows_)] >>
         ELSE [b \in 1..bins |->
                 [range |-> RangeText(starts[b], Plus(starts[b], width), FALSE),
                  count |-> Cardinality({ i \in DOMAIN values : indexes[i] = b - 1 })]]

\* width = (max - min) / bins; index = Math.min(bins - 1, Math.floor((value - min) / width));
\* start = min + width * index; end = start + width
computeHistogram(comp, rows_, bins) ==
  IF Len(rows_) = 0 THEN <<>>
  ELSE
    LET values == [i \in DOMAIN rows_ |-> rows_[i].value]
        min == MathMin(values)
        max == MathMax(values)
        width == Divided(Minus(max, min), Whole(bins))
        indexes == [i \in DOMAIN values |->
                      Min(bins - 1, MathFloor(Divided(Minus(values[i], min), width)))]
        starts == [b \in 1..bins |-> Plus(min, Times(width, Whole(b - 1)))]
    IN IF WithinTolerance(Minus(max, min))
         THEN << [range |-> RangeText(min, max, comp = "part_002"), count |-> Len(rows_)] >>
         ELSE [b \in 1..bins |->
                 [range |-> RangeText(starts[b], Plus(starts[b], width), FALSE),
                  count |-> Cardinality({ i \in DOMAIN values : indexes[i] = b - 1 })]]

\* ------------------------------------------------------ the sample projector
ScatterCap == [part_000 |-> 4000, part_002 |-> 3000]   \* rows.slice(0, 4000), rows.slice(0, 3000)

\* the property names every object literal inherits from Object.prototype:
\* output[name] is not undefined for them although nothing was stored
ObjectPrototypeKeys ==
  { "constructor", "__proto__", "hasOwnProperty", "isPrototypeOf", "propertyIsEnumerable",
    "toLocaleString", "toString", "valueOf", "__defineGetter__", "__defineSetter__",
    "__lookupGetter__", "__lookupSetter__" }
\* what a call returns that ended in a thrown TypeError
TypeError == [threw |-> "TypeError"]

\* round(dt.getUTCHours() + dt.getUTCMinutes() / 60, 2) in part_000,
\* round(date.getHours() + date.getMinutes() / 60, 2) in part_002
ScatterHour(comp, observedAt, tz) ==
  LET dt == NewDate(observedAt)
      hours == IF comp = "part_000" THEN getUTCHours(dt) ELSE getHours(dt, tz)
      minutes == IF comp = "part_000" THEN getUTCMinutes(dt) ELSE getMinutes(dt, tz)
  IN roundOf(Plus(Whole(hours), Divided(Whole(minutes), Whole(60))), 1)

\* the output object has one list per station code of the first 4000 rows, a
\* point pushed for each of those rows in turn; output[code] of an inherited
\* name is truthy, no list is stored, and its push is not a function
computeScatterByStation(rows_) ==
  LET taken == SliceTo(rows_, ScatterCap["part_000"])
      stations == { taken[i].station_code : i \in DOMAIN taken }
      pointOf(row) == [hour |-> ScatterHour("part_000", row.observed_at, 0), value |-> row.value]
  IN IF stations \cap ObjectPrototypeKeys # {} THEN TypeError
     ELSE [s \in stations |->
             LET group == SelectSeq(taken, LAMBDA row : row.station_code = s)
             IN [i \in DOMAIN group |-> pointOf(group[i])]]

\* rows.slice(0, 3000).map((row) => ({ hour, value, station }))
computeScatterRows(rows_, tz) ==
  LET taken == SliceTo(rows_, ScatterCap["part_002"])
  IN [i \in DOMAIN taken |->
        [hour |-> ScatterHour("part_002", taken[i].observed_at, tz), value |-> taken[i].value,
         station |-> taken[i].station_code]]

\* ----------------------------------------------------------------- heatmap
\* the calendar day and the hour computeHeatmap files a row under
HeatDay(comp, observedAt) ==
  IF comp = "part_000" THEN DateText(getUTCDate(NewDate(observedAt)))
  ELSE slice10(observedAt)
HeatHour(comp, observedAt, tz) ==
  IF comp = "part_000" THEN getUTCHours(NewDate(observedAt))
  ELSE getHours(NewDate(observedAt), tz)

RECURSIVE GroupByDayHour(_, _, _, _)
\* the Map `${day}|${hour}` -> { sum, count } after the first n rows
GroupByDayHour(comp, rows_, tz, n) ==
  IF n = 0 THEN <<>>
  ELSE LET grouped == GroupByDayHour(comp, rows_, tz, n - 1)
           key == <<HeatDay(comp, rows_[n].observed_at), HeatHour(comp, rows_[n].observed_at, tz)>>
           bucket == MapGetOr(grouped, key, ZeroAggregate)
       IN MapSet(grouped, key, Accumulate(bucket, rows_[n].value))

RECURSIVE DaySet(_, _, _)
\* the Set of days after the first n rows, in insertion order
DaySet(comp, rows_, n) ==
  IF n = 0 THEN <<>>
  ELSE LET daySet == DaySet(comp, rows_, n - 1)
           day == HeatDay(comp, rows_[n].observed_at)
       IN IF \E i \in DOMAIN daySet : daySet[i] = day THEN daySet ELSE Append(daySet, day)

\* list.slice(-k)
SliceLast(list, k) == SubSeq(list, Max(1, Len(list) - k + 1), Len(list))

\* computeHeatmap's days with slice(0, 14) where the code has slice(-14)
HeatDaysKeepingFirst(comp, rows_) ==
  SliceTo(StableSort(DaySet(comp, rows_, Len(rows_)), LAMBDA a, b : localeCompare(a, b) < 0),
          HeatmapDays)

\* the days computeHeatmap keeps: Array.from(daySet.values()).sort().slice(-14)
HeatDays(comp, rows_) ==
  SliceLast(StableSort(DaySet(comp, rows_, Len(rows_)), LAMBDA a, b : localeCompare(a, b) < 0),
            HeatmapDays)

\* computeHeatmap that emits every accumulator, retained day or not
computeHeatmapUnfiltered(comp, rows_, tz) ==
  LET grouped == GroupByDayHour(comp, rows_, tz, Len(rows_))
  IN [days |-> HeatDays(comp, rows_), hours |-> [i \in 1..24 |-> i - 1],
      values |-> [key \in MapKeys(grouped) |-> Average(MapGet(grouped, key))]]

computeHeatmap(comp, rows_, tz) ==
  LET grouped == GroupByDayHour(comp, rows_, tz, Len(rows_))
      days == HeatDays(comp, rows_)
      hours == [i \in 1..24 |-> i - 1]
      cells == { <<days[d], hours[h]>> : d \in DOMAIN days, h \in DOMAIN hours }
  IN [days |-> days, hours |-> hours,
      values |-> [key \in cells \cap MapKeys(grouped) |-> Average(MapGet(grouped, key))]]

\* ----------------------------------------------------------------- summary
\* Number(point.overall ?? 0)
OverallOf(point) == IF "overall" \in DOMAIN point THEN point["overall"] ELSE Whole(0)
\* Math.max(0.05, Math.abs(mean) * 0.02), in value units
TrendThreshold(mean) ==
  LET floor == Number(valueScale, 20)
      relative == Times(Magnitude(mean), Number(1, 50))
  IN IF Less(floor, relative) THEN relative ELSE floor

\* buildSummary whose comparisons with the threshold are not strict
buildSummaryInclusive(rows_, temporalSeries) ==
  IF Len(rows_) = 0
    THEN [samples |-> 0, mean |-> Whole(0), min |-> Whole(0), max |-> Whole(0),
          trend |-> "Stable"]
  ELSE
    LET values == [i \in DOMAIN rows_ |-> rows_[i].value]
        mean == Divided(SumOf(values, Len(values)), Whole(Len(values)))
        delta == Minus(OverallOf(temporalSeries[Len(temporalSeries)]),
                       OverallOf(temporalSeries[1]))
        threshold == TrendThreshold(mean)
    IN [samples |-> Len(rows_), mean |-> mean,
        min |-> MathMin(values), max |-> MathMax(values),
        trend |-> IF Len(temporalSeries) < 2 THEN "Stable"
                  ELSE IF ~Less(delta, threshold) THEN "Rising"
                  ELSE IF ~Less(Negated(threshold), delta) THEN "Falling"
                  ELSE "Stable"]

\* buildSummary that reads the series before it looks at the rows
buildSummaryOfSeries(rows_, temporalSeries) ==
  LET values == [i \in DOMAIN rows_ |-> rows_[i].value]
      mean == IF Len(rows_) = 0 THEN Whole(0)
              ELSE Divided(SumOf(values, Len(values)), Whole(Len(values)))
      delta == Minus(OverallOf(temporalSeries[Len(temporalSeries)]),
                     OverallOf(temporalSeries[1]))
      threshold == TrendThreshold(mean)
  IN [samples |-> Len(rows_), mean |-> mean,
      min |-> IF Len(rows_) = 0 THEN Whole(0) ELSE MathMin(values),
      max |-> IF Len(rows_) = 0 THEN Whole(0) ELSE MathMax(values),
      trend |-> IF Len(temporalSeries) < 2 THEN "Stable"
                ELSE IF Less(threshold, delta) THEN "Rising"
                ELSE IF Less(delta, Negated(threshold)) THEN "Falling"
                ELSE "Stable"]

buildSummary(rows_, temporalSeries) ==
  IF Len(rows_) = 0
    THEN [samples |-> 0, mean |-> Whole(0), min |-> Whole(0), max |-> Whole(0),
          trend |-> "Stable"]
  ELSE
    LET values == [i \in DOMAIN rows_ |-> rows_[i].value]
        mean == Divided(SumOf(values, Len(values)), Whole(Len(values)))
        delta == Minus(OverallOf(temporalSeries[Len(temporalSeries)]),
                       OverallOf(temporalSeries[1]))
        threshold == TrendThreshold(mean)
    IN [samples |-> Len(rows_), mean |-> mean,
        min |-> MathMin(values), max |-> MathMax(values),
        trend |-> IF Len(temporalSeries) < 2 THEN "Stable"
                  ELSE IF Less(threshold, delta) THEN "Rising"
                  ELSE IF Less(delta, Negated(threshold)) THEN "Falling"
                  ELSE "Stable"]


\* ------------------------------------------- the projections are applied
\* The component has rendered with a batch in `rows`; each action is one
\* evaluation of a projection, recorded in `call`.
PayloadDates == 0..MaxPayloadDate
BinCounts(comp) == (1..MaxBins) \cup {DefaultBins[comp]}
TimezoneOffsets == {0, -300}
\* bucket sequences handed to buildSummary besides the computed one
ProbeSeries ==
  { <<>>,
    << [overall |-> Number(10, 1)], [overall |-> Number(51, 5)] >>,
    << [overall |-> Number(51, 5)], [overall |-> Number(10, 1)] >>,
    << [overall |-> Number(0, 1)], [overall |-> Number(1, 20)] >> }

ProjectionInit ==
  /\ component \in Components
  /\ filters = NoFilters
  /\ bootstrapReady = FALSE
  /\ selectedSourceId = NullSource
  /\ selectedStations = <<>>
  /\ dateFrom = EmptyDate
  /\ dateTo = EmptyDate
  /\ rowLimit = IF component = "part_000" THEN 5000 ELSE 3000
  /\ \/ valueScale = 1 /\ rows \in Batches
     \/ valueScale = FineScale /\ rows \in FineBatches
  /\ error = NoError
  /\ loading = FALSE
  /\ requestIdRef = 0
  /\ timers = <<>>
  /\ latest = NoRequest
  /\ pending = {}
  /\ appliedId = 0
  /\ liveSnapshot = NoSnapshot
  /\ liveLoading = FALSE
  /\ liveRequestIdRef = 0
  /\ livePending = {}
  /\ call = NoCall

\* a projection reads nothing but its arguments, so a behaviour applies one
Returns(fn, args, result) ==
  /\ call = NoCall
  /\ call' = [fn |-> fn, args |-> args, result |-> result]
  /\ UNCHANGED <<orchestratorVars, valueScale>>

\* runAnalysis normalizes the date inputs and puts them in the payload;
\* `again` is the normalization of what the first normalization returned
NormalizeDates(from, to) ==
  LET once == normalizeDateRange(from, to)
      payload == BuildPayload(component, filters,
                              CurrentArgs(1, selectedStations, from, to, rowLimit))
  IN Returns("normalizeDateRange", [from |-> from, to |-> to],
             [once |-> once, again |-> normalizeDateRange(once.from, once.to),
              date_from |-> payload.date_from, date_to |-> payload.date_to])

\* limits passed to runAnalysis: below the floor of 100, between the row
\* counts of the two sources, and above both
RequestedLimits == {50, 3000, 9000}
\* the filters runAnalysis has in its closure: none yet, or the loaded ones
LoadedFilters == {NoFilters} \cup { f \in FilterResponses : f.sources # <<>> }

\* runAnalysis puts the row limit in the payload; source 3 is in no list
NormalizeLimit(f, sourceId, requestedLimit) ==
  LET payload == BuildPayload(component, f,
                              CurrentArgs(sourceId, selectedStations, dateFrom, dateTo,
                                          requestedLimit))
  IN Returns("runAnalysis",
             [filters |-> f, sourceId |-> sourceId, requestedLimit |-> requestedLimit],
             [limit |-> payload.limit])

TemporalArgs(comp) ==
  IF comp = "part_000"
    THEN [granularity : Granularities, splitByStation : BOOLEAN]
    ELSE { [granularity |-> "day", splitByStation |-> FALSE] }

ComputeTemporalSeries(args) ==
  Returns("computeTemporalSeries", args,
          TemporalSeries(component, rows, args.granularity, args.splitByStation))

ComputeStationBars ==
  Returns("computeStationBars", <<>>, computeStationBars(component, rows))

ComputeHistogram(bins) ==
  Returns("computeHistogram", [bins |-> bins], computeHistogram(component, rows, bins))

ComputeHeatmap(tz) ==
  Returns("computeHeatmap", [tz |-> tz], computeHeatmap(component, rows, tz))

\* computeScatterByStation(rows) in part_000, computeScatterRows(rows) in part_002
ComputeScatter(tz) ==
  Returns("computeScatter", [tz |-> tz],
          IF component = "part_000" THEN computeScatterByStation(rows)
          ELSE computeScatterRows(rows, tz))

\* buildSummary(rows, temporalSeries.points), or with another bucket sequence
BuildSummary(temporalSeries) ==
  Returns("buildSummary", [temporalSeries |-> temporalSeries],
          buildSummary(rows, temporalSeries))

ProjectionNext ==
  \/ \E from \in PayloadDates, to \in PayloadDates : NormalizeDates(from, to)
  \/ \E f \in LoadedFilters, sourceId \in 1..(Len(SourceList) + 1),
         requestedLimit \in RequestedLimits : NormalizeLimit(f, sourceId, requestedLimit)
  \/ \E args \in TemporalArgs(component) : ComputeTemporalSeries(args)
  \/ ComputeStationBars
  \/ \E bins \in BinCounts(component) : ComputeHistogram(bins)
  \/ \E tz \in (IF component = "part_000" THEN {0} ELSE TimezoneOffsets) : ComputeHeatmap(tz)
  \/ \E args \in TemporalArgs(component) :
       BuildSummary(TemporalSeries(component, rows, args.granularity, args.splitByStation).points)
  \/ \E probe \in (IF valueScale = 1 THEN ProbeSeries ELSE {}) : BuildSummary(probe)
  \/ \E tz \in (IF component = "part_000" THEN {0} ELSE TimezoneOffsets) : ComputeScatter(tz)

ProjectionSpec == ProjectionInit /\ [][ProjectionNext]_vars

\* ---------------------------------------- the sample of a batch past the cap
MaxExtraRows == 1       \* a long batch has up to the cap + MaxExtraRows rows

\* n rows of three stations, a minute apart in the wall clock of each day
LongRun(n) ==
  [i \in 1..n |->
     Row(Timestamp(1 + (i % 3), i % 24, (7 * i) % 60, 0), StationNames[1 + (i % 3)],
         "PM25", Number(i % 7, 1))]
LongRuns ==
  { LongRun(ScatterCap[comp] + extra) : comp \in Components, extra \in (-1)..MaxExtraRows }

\* rows of a station whose code is a name every object inherits
InheritedNameRows ==
  << Row(Timestamp(1, 8, 0, 0), "S1", "PM25", Number(10, 1)),
     Row(Timestamp(1, 8, 30, 0), "constructor", "PM25", Number(20, 1)) >>

SampleInit ==
  /\ component \in Components
  /\ filters = NoFilters
  /\ bootstrapReady = FALSE
  /\ selectedSourceId = NullSource
  /\ selectedStations = <<>>
  /\ dateFrom = EmptyDate
  /\ dateTo = EmptyDate
  /\ rowLimit = IF component = "part_000" THEN 5000 ELSE 3000
  /\ valueScale = 1
  /\ rows \in Batches \cup BatchesOf(InheritedNameRows) \cup LongRuns
  /\ error = NoError
  /\ loading = FALSE
  /\ requestIdRef = 0
  /\ timers = <<>>
  /\ latest = NoRequest
  /\ pending = {}
  /\ appliedId = 0
  /\ liveSnapshot = NoSnapshot
  /\ liveLoading = FALSE
  /\ liveRequestIdRef = 0
  /\ livePending = {}
  /\ call = NoCall

SampleNext ==
  \E tz \in (IF component = "part_000" THEN {0} ELSE TimezoneOffsets) : ComputeScatter(tz)

SampleSpec == SampleInit /\ [][SampleNext]_vars

\* ----------------------------------------------------------------- claims


\* C11: the date range is normalized before dispatch: when both date inputs
\* are filled the payload has date_from <= date_to (an inverted pair is
\* swapped, an ordered pair is passed as it is); when one input is empty it
\* is omitted and the other is passed unchanged; normalizing twice gives what
\* normalizing once gives.
C11_DateRangeNormalized ==
  call.fn = "normalizeDateRange" =>
    LET from == call.args.from
        to == call.args.to
        once == call.result.once
    IN /\ call.result.date_from = once.from /\ call.result.date_to = once.to
       /\ (from # EmptyDate /\ to # EmptyDate) =>
            /\ once.from <= once.to
            /\ from <= to => once = [from |-> from, to |-> to]
            /\ from > to => once = [from |-> to, to |-> from]
       /\ from = EmptyDate =>
            /\ once.from = Undefined
            /\ once.to = IF to = EmptyDate THEN Undefined ELSE to
       /\ to = EmptyDate =>
            /\ once.to = Undefined
            /\ once.from = IF from = EmptyDate THEN Undefined ELSE from
       /\ call.result.again = once
\* an inverted pair of filled dates has been normalized
C11_Witness ==
  /\ call.fn = "normalizeDateRange"
  /\ call.args.to # EmptyDate
  /\ call.args.from > call.args.to
  /\ call.result.date_from = call.args.to


\* the truncated timestamp of a row: the bucket key the variant files it under
TruncatedTimestamp(comp, row, granularity) ==
  IF comp = "part_000" THEN getBucketKey(row.observed_at, granularity)
  ELSE slice10(row.observed_at)
\* the series key of a row
SeriesKey(row, splitByStation) ==
  IF splitByStation THEN row.station_code ELSE row.variable_code
RECURSIVE SumOver(_, _, _)
\* the sum of the values at the places `members` among the first n rows of
\* `batch`, added up in the order of the batch
SumOver(batch, members, n) ==
  IF n = 0 THEN Whole(0)
  ELSE IF n \in members THEN Plus(SumOver(batch, members, n - 1), batch[n].value)
  ELSE SumOver(batch, members, n - 1)
\* the arithmetic mean of the rows of `batch` at the places `members`: their
\* sum divided by their number, in the numbers of the program
MeanOver(batch, members) ==
  Divided(SumOver(batch, members, Len(batch)), Whole(Cardinality(members)))
\* the places of the rows of `rows` that fall in the bucket with key `text`
RowsOfBucket(text) ==
  { i \in DOMAIN rows :
      TruncatedTimestamp(component, rows[i], call.args.granularity) = text }
TemporalCall == call.fn = "computeTemporalSeries"
PointsReturned == { call.result.points[i] : i \in DOMAIN call.result.points }

\* C12: in every batch, at every granularity and with either value of
\* splitByStation, the `overall` of each point of the temporal series is the
\* arithmetic mean of exactly the rows whose truncated timestamp is the
\* point's bucket key, whatever series keys the batch has.
C12_OverallIsBucketMean ==
  TemporalCall =>
    \A point \in PointsReturned :
      LET bucket == point[KeyField(component)]
      IN /\ IsText(bucket)
         /\ RowsOfBucket(bucket.text) # {}
         /\ point["overall"] = MeanOver(rows, RowsOfBucket(bucket.text))


HistogramCall == call.fn = "computeHistogram"
RECURSIVE CountSum(_)
CountSum(bins) == IF bins = <<>> THEN 0 ELSE Head(bins).count + CountSum(Tail(bins))
ValuesOf(batch) == { batch[i].value : i \in DOMAIN batch }
Least(batch) == CHOOSE v \in ValuesOf(batch) : \A w \in ValuesOf(batch) : ~Less(w, v)
Greatest(batch) == CHOOSE v \in ValuesOf(batch) : \A w \in ValuesOf(batch) : ~Less(v, w)
\* max - min of a non-empty batch as the program subtracts, in value units
Spread(batch) == Minus(Greatest(batch), Least(batch))

HeatmapCall == call.fn = "computeHeatmap"
\* the distinct calendar days of the batch
DaysOfBatch == { HeatDay(component, rows[i].observed_at) : i \in DOMAIN rows }
Earlier(a, b) == localeCompare(a, b) < 0

\* C15: the heatmap keeps at most 14 days: its list of days is exactly the 14
\* greatest distinct calendar days of the batch (all of them when there are
\* fewer), strictly ascending and so without duplicates, and its list of
\* hours is exactly 0..23.
C15_LatestFourteenDays ==
  HeatmapCall =>
    LET days == call.result.days
        kept == { days[i] : i \in DOMAIN days }
    IN /\ Len(days) = Min(HeatmapDays, Cardinality(DaysOfBatch))
       /\ kept \subseteq DaysOfBatch
       /\ \A i \in 1..(Len(days) - 1) : Earlier(days[i], days[i + 1])
       /\ \A dropped \in DaysOfBatch \ kept : \A day \in kept : Earlier(dropped, day)
       /\ call.result.hours = [h \in 1..24 |-> h - 1]
\* a batch of more than 14 days, newest first, has been cut to 14 days
C15_Witness ==
  /\ HeatmapCall
  /\ Cardinality(DaysOfBatch) > HeatmapDays
  /\ Len(call.result.days) = HeatmapDays
  /\ Earlier(HeatDay(component, rows[2].observed_at), HeatDay(component, rows[1].observed_at))

BarsCall == call.fn = "computeStationBars"
StationsOfBatch == { rows[i].station_code : i \in DOMAIN rows }
RowsOfStation(station) == { i \in DOMAIN rows : rows[i].station_code = station }
FirstRowOf(station) ==
  CHOOSE i \in RowsOfStation(station) : \A j \in RowsOfStation(station) : i <= j
\* the order of the bars: greater average first, and of two stations with the
\* same average the one met first in the batch
BarBefore(s, t) ==
  LET avgS == MeanOver(rows, RowsOfStation(s))
      avgT == MeanOver(rows, RowsOfStation(t))
  IN Less(avgT, avgS) \/ (avgS = avgT /\ FirstRowOf(s) < FirstRowOf(t))

\* C16: the categorical aggregator returns one {station, average} pair per
\* distinct station, the average being the mean of that station's values, in
\* non-increasing order of average with equal averages in first-met order;
\* the capped variant returns the first 14 pairs of that order.
C16_BarsPerStationSorted ==
  BarsCall =>
    LET bars == call.result
        listed == { bars[i].station : i \in DOMAIN bars }
    IN /\ Len(bars) = IF component = "part_000" THEN Cardinality(StationsOfBatch)
                      ELSE Min(StationBarsCap, Cardinality(StationsOfBatch))
       /\ listed \subseteq StationsOfBatch
       /\ \A i \in DOMAIN bars :
            bars[i].avg = MeanOver(rows, RowsOfStation(bars[i].station))
       /\ \A i \in 1..(Len(bars) - 1) : BarBefore(bars[i].station, bars[i + 1].station)
       /\ \A left \in StationsOfBatch \ listed : \A s \in listed : BarBefore(s, left)
\* the capped variant has cut more than 14 stations to 14 bars, in which two
\* stations with the same average stand in the order the batch met them,
\* after a station that was met later and has a greater average
C16_Witness ==
  /\ BarsCall
  /\ Cardinality(StationsOfBatch) > StationBarsCap
  /\ Len(call.result) = StationBarsCap
  /\ \E i \in 1..(Len(call.result) - 1) :
       /\ call.result[i].avg = call.result[i + 1].avg
       /\ FirstRowOf(call.result[i].station) < FirstRowOf(call.result[i + 1].station)
       /\ \E k \in 1..(i - 1) :
            FirstRowOf(call.result[k].station) > FirstRowOf(call.result[i + 1].station)


SummaryCall == call.fn = "buildSummary"
AllRows == DOMAIN rows
\* last.overall - first.overall of the bucket sequence handed to buildSummary
SeriesDelta ==
  LET series == call.args.temporalSeries
  IN Minus(OverallOf(series[Len(series)]), OverallOf(series[1]))
\* max(0.05, |mean| * 0.02) for the mean of the whole batch, in value units
BatchThreshold ==
  LET floor == Number(valueScale, 20)
      relative == Times(Magnitude(MeanOver(rows, AllRows)), Number(1, 50))
  IN IF Less(relative, floor) THEN floor ELSE relative

\* C17: for a non-empty batch the trend is Rising exactly when delta >
\* threshold, Falling exactly when delta < -threshold and Stable otherwise,
\* with delta = last.overall - first.overall over the bucket sequence and
\* threshold = max(0.05, |mean| * 0.02), the mean being that of the whole
\* batch; with fewer than two buckets the trend is Stable, and a delta
\* exactly equal to the threshold gives Stable.
C17_TrendByThreshold ==
  (SummaryCall /\ rows # <<>>) =>
    LET trend == call.result.trend
    IN IF Len(call.args.temporalSeries) < 2 THEN trend = "Stable"
       ELSE /\ trend = "Rising" <=> Less(BatchThreshold, SeriesDelta)
            /\ trend = "Falling" <=> Less(SeriesDelta, Negated(BatchThreshold))
            /\ trend \in {"Rising", "Falling", "Stable"}
            /\ SeriesDelta = BatchThreshold => trend = "Stable"
\* a delta equal to the threshold, 0.05 for a batch of mean 0.1, has given Stable
C17_Witness ==
  /\ SummaryCall
  /\ rows # <<>>
  /\ Len(call.args.temporalSeries) = 2
  /\ SeriesDelta = BatchThreshold
  /\ BatchThreshold = Number(1, 20)
  /\ call.result.trend = "Stable"

\* the rounding a mean of n values can carry: n * 2^-(MantissaBits - 1) times
\* the greater of |min| and |max|
MeanRounding ==
  LET least == Magnitude(Least(rows))
      greatest == Magnitude(Greatest(rows))
      bound == IF Less(least, greatest) THEN greatest ELSE least
  IN Quotient(Len(rows) * bound.num, bound.den * Pow2(MantissaBits - 1))
EmptySummary ==
  [samples |-> 0, mean |-> Whole(0), min |-> Whole(0), max |-> Whole(0), trend |-> "Stable"]

BucketKeysOfBatch ==
  { TruncatedTimestamp(component, rows[i], call.args.granularity) : i \in DOMAIN rows }
SeriesKeysOfBatch == { SeriesKey(rows[i], call.args.splitByStation) : i \in DOMAIN rows }
\* the places of the rows of the bucket `text` that have series key k
RowsOfSeries(text, k) ==
  { i \in RowsOfBucket(text) : SeriesKey(rows[i], call.args.splitByStation) = k }

\* C19: the temporal series has exactly one point per distinct bucket key of
\* the batch, each point holding its bucket key, in strictly ascending
\* lexical order of the bucket keys; the empty batch gives no points and no
\* series keys.
C19_OnePointPerBucketAscending ==
  TemporalCall =>
    LET points == call.result.points
        keyOf(i) == points[i][KeyField(component)]
    IN /\ Len(points) = Cardinality(BucketKeysOfBatch)
       /\ \A i \in DOMAIN points : IsText(keyOf(i)) /\ keyOf(i).text \in BucketKeysOfBatch
       /\ \A i \in 1..(Len(points) - 1) :
            IsText(keyOf(i)) /\ IsText(keyOf(i + 1)) /\ Earlier(keyOf(i).text, keyOf(i + 1).text)
       /\ rows = <<>> => (points = <<>> /\ call.result.keys = <<>>)

\* C20: every point is the point of a bucket of the batch such that, for
\* every series key k of the batch, the point has a value under k exactly
\* when a row of that bucket has series key k, and that value is the mean of
\* those rows; a key without rows in the bucket is absent from the point.
C20_SeriesValuePresentIffRows ==
  TemporalCall =>
    \A point \in PointsReturned :
      \E text \in BucketKeysOfBatch :
        \A k \in SeriesKeysOfBatch :
          IF RowsOfSeries(text, k) = {} THEN k \notin DOMAIN point
          ELSE /\ k \in DOMAIN point
               /\ point[k] = MeanOver(rows, RowsOfSeries(text, k))

\* the number of rows of the batch that carry series key k, and the first of them
RowsWithKey(k) == { i \in DOMAIN rows : SeriesKey(rows[i], call.args.splitByStation) = k }
\* the order of the series keys: more rows first, and of two keys with the
\* same number of rows the one the batch met first
KeyBefore(a, b) ==
  LET firstOf(k) == CHOOSE i \in RowsWithKey(k) : \A j \in RowsWithKey(k) : i <= j
  IN \/ Cardinality(RowsWithKey(a)) > Cardinality(RowsWithKey(b))
     \/ /\ Cardinality(RowsWithKey(a)) = Cardinality(RowsWithKey(b))
        /\ firstOf(a) < firstOf(b)
\* `list` is the first `length` series keys of the batch in the order KeyBefore
FirstKeysByFrequency(list, length) ==
  LET listed == { list[i] : i \in DOMAIN list }
  IN /\ Len(list) = length
     /\ listed \subseteq SeriesKeysOfBatch
     /\ \A i \in 1..(Len(list) - 1) : KeyBefore(list[i], list[i + 1])
     /\ \A left \in SeriesKeysOfBatch \ listed : \A k \in listed : KeyBefore(k, left)
\* how many series keys each variant draws when it does not split by station
SeriesCap(comp) == IF comp = "part_000" THEN 4 ELSE 3

\* C21 as stated: the series keys are ordered by descending number of rows,
\* equal counts in first-seen order; the list never holds `overall` unless a
\* row carries it; without the split by station it is cut to the 4 most
\* frequent keys, with the split every station of the batch is kept.
C21_TopFourKeys ==
  TemporalCall =>
    FirstKeysByFrequency(call.result.lines,
                         IF call.args.splitByStation THEN Cardinality(SeriesKeysOfBatch)
                         ELSE Min(4, Cardinality(SeriesKeysOfBatch)))

\* C21, amended: the same order; without the split by station the list is cut
\* to the 4 most frequent keys by computeTemporalSeries and to the 3 most
\* frequent by the variant that has topVariableCodes, which never splits;
\* with the split every station of the batch is kept; `overall` is in the list
\* only when a row carries it, except that the variant with topVariableCodes
\* draws the one key `overall` for the empty batch.
C21_KeysByFrequency ==
  TemporalCall =>
    /\ FirstKeysByFrequency(call.result.keys,
                            IF call.args.splitByStation THEN Cardinality(SeriesKeysOfBatch)
                            ELSE Min(SeriesCap(component), Cardinality(SeriesKeysOfBatch)))
    /\ call.result.lines = IF component = "part_002" /\ rows = <<>> THEN <<"overall">>
                           ELSE call.result.keys
\* five variable codes have been cut to four, and of two codes with the same
\* number of rows the one met first is kept although the other was met
\* before the most frequent code
C21_Witness ==
  /\ TemporalCall
  /\ component = "part_000"
  /\ ~call.args.splitByStation
  /\ Cardinality(SeriesKeysOfBatch) = 5
  /\ Len(call.result.lines) = 4
  /\ \E k \in SeriesKeysOfBatch :
       /\ \A i \in DOMAIN call.result.lines : call.result.lines[i] # k
       /\ Cardinality(RowsWithKey(k)) = Cardinality(RowsWithKey(call.result.lines[4]))
       /\ Cardinality(RowsWithKey(call.result.lines[1])) > Cardinality(RowsWithKey(k))
       /\ \E i \in RowsWithKey(call.result.lines[1]) : \A j \in RowsWithKey(k) : i < j

ScatterCall == call.fn = "computeScatter"
\* the rows the sample is taken from: the first min(batch size, cap) rows
SampledRows == SubSeq(rows, 1, Min(Len(rows), ScatterCap[component]))
\* the point of a row: its hour of day and its value
SampleOf(row) ==
  [hour |-> ScatterHour(component, row.observed_at, call.args.tz), value |-> row.value]

\* C22: the sample holds exactly one point for each of the first
\* min(batch size, cap) rows and nothing for a later row, cap = 4000 per
\* station and 3000 flat, the points in batch order (within the group of each
\* station in the per-station variant).
C22_SampleIsPrefix ==
  ScatterCall =>
    IF component = "part_002"
      THEN /\ Len(call.result) = Len(SampledRows)
           /\ \A i \in DOMAIN SampledRows :
                /\ call.result[i].hour = SampleOf(SampledRows[i]).hour
                /\ call.result[i].value = SampledRows[i].value
                /\ call.result[i].station = SampledRows[i].station_code
      ELSE /\ call.result # TypeError
           /\ DOMAIN call.result = { SampledRows[i].station_code : i \in DOMAIN SampledRows }
           /\ \A s \in DOMAIN call.result :
                LET group == SelectSeq(SampledRows, LAMBDA row : row.station_code = s)
                IN call.result[s] = [i \in DOMAIN group |-> SampleOf(group[i])]

\* the UTC calendar fields of observed_at: the day, the hour, and the hour of
\* day with the minutes as a fraction, rounded to two places
UtcDay(observedAt) == DateText(CivilDate(NewDate(observedAt) \div 1440))
UtcHour(observedAt) == (NewDate(observedAt) % 1440) \div 60
UtcHourOfDay(observedAt) ==
  roundOf(Plus(Whole(UtcHour(observedAt)),
               Divided(Whole(NewDate(observedAt) % 60), Whole(60))), 1)

\* C23: every time-derived key is computed from the UTC calendar fields of
\* observed_at: each bucket key of the temporal series is the UTC bucket of a
\* row, each heatmap cell is the UTC day and the UTC hour of one row, each
\* scatter hour is the UTC hour of day of its row; and the heatmap and the
\* scatter sample of a batch are the same in every time zone of the browser.
C23_KeysFromUtc ==
  /\ TemporalCall =>
        \A point \in PointsReturned :
          IsText(point[KeyField(component)]) =>
            \E i \in DOMAIN rows :
              point[KeyField(component)].text
                = getBucketKey(rows[i].observed_at, call.args.granularity)
  /\ HeatmapCall =>
        /\ \A cell \in DOMAIN call.result.values :
             \E i \in DOMAIN rows :
               cell = <<UtcDay(rows[i].observed_at), UtcHour(rows[i].observed_at)>>
        /\ \A tz \in TimezoneOffsets : computeHeatmap(component, rows, tz) = call.result
  /\ (ScatterCall /\ component = "part_002") =>
        /\ \A i \in DOMAIN call.result :
             call.result[i].hour = UtcHourOfDay(rows[i].observed_at)
        /\ \A tz \in TimezoneOffsets : computeScatterRows(rows, tz) = call.result
  /\ (ScatterCall /\ component = "part_000") =>
        \A s \in DOMAIN call.result :
          LET group == SelectSeq(rows, LAMBDA row : row.station_code = s)
          IN \A i \in DOMAIN call.result[s] :
               call.result[s][i].hour = UtcHourOfDay(group[i].observed_at)

\* the bins the claim describes, for the bin count N of the call: the width
\* (max - min) / N, the index of a value, and the start and the end of the bin
\* with index b, each computed in the numbers of the program
BinWidth == Divided(Spread(rows), Whole(call.args.bins))
IndexOf(v) == Min(call.args.bins - 1, MathFloor(Divided(Minus(v, Least(rows)), BinWidth)))
BinStart(b) == Plus(Least(rows), Times(BinWidth, Whole(b)))
BinEnd(b) == Plus(BinStart(b), BinWidth)
\* the rounding two boundaries computed for the same point can differ by:
\* 8 * 2^-(MantissaBits - 1) times the greater of |min| and |max|
BoundaryRounding ==
  LET least == Magnitude(Least(rows))
      greatest == Magnitude(Greatest(rows))
      bound == IF Less(least, greatest) THEN greatest ELSE least
  IN Quotient(8 * bound.num, bound.den * Pow2(MantissaBits - 1))
\* the N bins of the call are labelled and filled as the claim says
BinsAsIndexed ==
  /\ Len(call.result) = call.args.bins
  /\ BinStart(0) = Least(rows)
  /\ \A i \in DOMAIN rows : IndexOf(rows[i].value) \in 0..(call.args.bins - 1)
  /\ IndexOf(Least(rows)) = 0
  /\ IndexOf(Greatest(rows)) = call.args.bins - 1
  /\ \A b \in 0..(call.args.bins - 1) :
       /\ call.result[b + 1].range = RangeText(BinStart(b), BinEnd(b), FALSE)
       /\ call.result[b + 1].count
            = Cardinality({ i \in DOMAIN rows : IndexOf(rows[i].value) = b })
NonDegenerate == HistogramCall /\ rows # <<>> /\ ~WithinTolerance(Spread(rows))

CellOf(i) ==
  <<HeatDay(component, rows[i].observed_at),
    HeatHour(component, rows[i].observed_at, call.args.tz)>>
RowsOfCell(cell) == { i \in DOMAIN rows : CellOf(i) = cell }
\* the retained days: the 14 latest distinct days of the batch
RetainedDays ==
  { day \in DaysOfBatch :
      Cardinality({ later \in DaysOfBatch : Earlier(day, later) }) < HeatmapDays }

\* C25: the values map of the heatmap has an entry for a day and hour
\* exactly when the day is retained and a row of the batch has that day and
\* hour; the entry is the mean of exactly those rows; a day outside the
\* retained window has no entry, and a cell without rows is absent.
C25_CellsOfRetainedDays ==
  HeatmapCall =>
    /\ DOMAIN call.result.values
         = { cell \in { CellOf(i) : i \in DOMAIN rows } : cell[1] \in RetainedDays }
    /\ \A cell \in DOMAIN call.result.values :
         call.result.values[cell] = MeanOver(rows, RowsOfCell(cell))
\* a batch of more than 14 days has 14 cells, none for its first day
C25_Witness ==
  /\ HeatmapCall
  /\ Cardinality(DaysOfBatch) > HeatmapDays
  /\ Cardinality(DOMAIN call.result.values) = HeatmapDays
  /\ \E i \in DOMAIN rows : CellOf(i) \notin DOMAIN call.result.values

\* a step in which runAnalysis passes its precondition, and one in which the
\* live-snapshot effect calls refreshLiveSnapshot
MainDispatch ==
  \/ selectedSourceId # NullSource /\ handleRunClick
  \/ timers # <<>> /\ Head(timers).sourceId # NullSource /\ TimerFires
LiveDispatch ==
  /\ component = "part_000"
  /\ \/ \E f \in FilterResponses : BootstrapSucceeds(f)
     \/ bootstrapReady /\ \E c \in StationCodes : handleToggleStation(c)

\* C26: each dispatched request of a channel carries the previous token of
\* the channel plus one, a token no request of the channel carries yet; the
\* counter of a channel never decreases and changes only in a step that
\* dispatches a request of that channel; the tokens in flight are distinct
\* tokens of 1..counter.
C26_TokensIncrease ==
  /\ [](pending \subseteq 1..requestIdRef /\ livePending \subseteq 1..liveRequestIdRef)
  /\ [][/\ requestIdRef' >= requestIdRef
        /\ liveRequestIdRef' >= liveRequestIdRef
        /\ (requestIdRef' # requestIdRef \/ ~(pending' \subseteq pending)) =>
             /\ requestIdRef' = requestIdRef + 1
             /\ pending' = pending \cup {requestIdRef + 1}
        /\ (liveRequestIdRef' # liveRequestIdRef \/ ~(livePending' \subseteq livePending)) =>
             /\ liveRequestIdRef' = liveRequestIdRef + 1
             /\ livePending' = livePending \cup {liveRequestIdRef + 1}]_vars
  /\ [][MainDispatch =>
          /\ requestIdRef' = requestIdRef + 1
          /\ requestIdRef' \in pending' \ pending]_vars
  /\ [][LiveDispatch =>
          /\ liveRequestIdRef' = liveRequestIdRef + 1
          /\ liveRequestIdRef' \in livePending' \ livePending]_vars
\* three main requests and two live requests are in flight, each with a
\* token of its own
C26_Witness ==
  /\ requestIdRef = 3 /\ pending = {1, 2, 3}
  /\ liveRequestIdRef = 2 /\ livePending = {1, 2}

\* a step of the user: a filter value changes or Refresh is clicked
UserStep == filterVars' # filterVars \/ handleRunClick
\* a timer is pending that the bound on the number of requests keeps from firing
HeldByBound ==
  timers # <<>> /\ Head(timers).sourceId # NullSource /\ requestIdRef >= MaxRequests
\* nothing is pending and the display is the outcome of the last dispatched
\* request, which carries the filter values on screen
Settled ==
  /\ timers = <<>>
  /\ ~loading
  /\ pending = {}
  /\ requestIdRef > 0 => (appliedId = requestIdRef /\ latest.current)

\* C27: if filter changes and manual refreshes eventually stop, and every
\* dispatched request is eventually answered or fails, then from some point
\* on no timer is pending, loading is false, and the display shows the
\* outcome of the last dispatched request, which carries the final filter
\* values (runs are followed up to MaxRequests requests).
C27_EventuallySettled ==
  <>[][~UserStep]_vars => <>[](Settled \/ HeldByBound)
\* after three requests, the last from a timer, the display has settled on
\* the outcome of the third while the filters are those it carries
C27_Witness ==
  /\ Settled
  /\ requestIdRef = 3
  /\ latest.via = "timer"
  /\ selectedSourceId = 2
  /\ selectedStations = <<"S1">>

\* C28: once a request has been dispatched, loading is true as long as the
\* request with the latest token has not completed: a dispatch sets loading,
\* the completion of the latest request clears it, the completion of a stale
\* request leaves it as it is, and nothing else clears it.
C28_LoadingWhileLatestPending ==
  /\ []((requestIdRef > 0 /\ requestIdRef \in pending) => loading)
  /\ [][MainDispatch => loading']_vars
  /\ [][\A t \in Tokens :
          Arrives(t) => IF t = requestIdRef THEN ~loading' ELSE loading' = loading]_vars
  /\ [][(requestIdRef > 0 /\ loading /\ ~loading') => Arrives(requestIdRef)]_vars
\* the first response is on display, two more requests were dispatched, the
\* second has completed stale, and loading is still true for the third
C28_Witness ==
  requestIdRef = 3 /\ pending = {3} /\ appliedId = 1 /\ loading /\ rows # <<>>

\* C29: whatever station and variable codes the batch has, a code spelled
\* overall, bucket or date included, the points of the temporal series are
\* those of the buckets of the batch: every point holds the bucket key of
\* the rows it aggregates in its key field and the mean of all rows of that
\* bucket in its overall field, and every bucket of the batch has such a point.
C29_ReservedFieldsIntact ==
  TemporalCall =>
    /\ \A point \in PointsReturned :
         /\ IsText(point[KeyField(component)])
         /\ point[KeyField(component)].text \in BucketKeysOfBatch
    /\ \A text \in BucketKeysOfBatch :
         \E point \in PointsReturned :
           /\ point[KeyField(component)] = Text(text)
           /\ point["overall"] = MeanOver(rows, RowsOfBucket(text))

LimitCall == call.fn = "runAnalysis"
\* the selected source is among the loaded filters, and its row count
SourceKnown ==
  \E i \in DOMAIN call.args.filters.sources :
    call.args.filters.sources[i].id = call.args.sourceId
SourceRowCount ==
  LET sources == call.args.filters.sources
  IN sources[CHOOSE i \in DOMAIN sources : sources[i].id = call.args.sourceId].row_count
\* max(100, min(requested limit, max(100, row count))), or max(100, requested
\* limit) when the source is not known
NormalizedLimit ==
  IF SourceKnown THEN Max(100, Min(call.args.requestedLimit, Max(100, SourceRowCount)))
  ELSE Max(100, call.args.requestedLimit)

\* C30 as stated: the limit of every dispatched payload is max(100,
\* min(requested limit, max(100, row count of the selected source))): never
\* below 100, never above max(100, row count) for a known source, and
\* max(100, requested limit) when the source is not among the loaded filters.
C30_LimitNormalized ==
  LimitCall =>
    /\ call.result.limit = NormalizedLimit
    /\ call.result.limit >= 100
    /\ SourceKnown => call.result.limit <= Max(100, SourceRowCount)

\* C30, amended: that is the limit the variant with the effectiveLimit sends
\* (part_000); the other variant (part_002) sends the requested limit as it
\* is, whatever the row count of the source; what bounds it is the limit
\* input, which stores a typed number as a limit within 1000..20000.
C30_LimitByVariant ==
  LimitCall =>
    IF component = "part_000"
      THEN /\ call.result.limit = NormalizedLimit
           /\ call.result.limit >= 100
           /\ SourceKnown => call.result.limit <= Max(100, SourceRowCount)
      ELSE /\ call.result.limit = call.args.requestedLimit
           /\ ClampLimitInput(component, call.args.filters, call.args.sourceId,
                              call.args.requestedLimit) \in 1000..20000
\* a limit of 3000 for a known source of 50 rows has been sent as 100
C30_Witness ==
  /\ LimitCall
  /\ component = "part_000"
  /\ SourceKnown
  /\ SourceRowCount = 50
  /\ call.args.requestedLimit = 3000
  /\ call.result.limit = 100

====
